---- MODULE Spec2Model ----
(***************************************************************************)
(* Model of the deterministic financing engine (services/financing):       *)
(* calculatePurchase, calculateLease, calculateSubscription and            *)
(* calculateAllScenarios, applied to one FinancingParams value per         *)
(* request.                                                                *)
(*                                                                         *)
(* Numbers.  JavaScript numbers are modelled as exact rationals            *)
(* [n |-> numerator, d |-> denominator > 0] in lowest terms, so that a     *)
(* fractional tax (price * taxRate) or a monthly payment (net / term) is   *)
(* kept unrounded exactly where the code keeps it unrounded, and           *)
(* Math.round is the only place where a value becomes whole.  apr = 5.5    *)
(* is 11/2, taxRate = 0.08 is 2/25.  Math.pow of the amortization formula  *)
(* is computed in fixed point at scale 10^8 and the resulting payment is   *)
(* carried at 1/10000 of a currency unit (about six significant digits;    *)
(* baseParams gives 580.6757 where IEEE-754 gives 580.6753).  Rounding     *)
(* noise of IEEE-754 doubles (of the order of 1e-12) is not modelled.      *)
(* residualValue is optional: residualGiven says whether the caller        *)
(* supplied it.                                                            *)
(*                                                                         *)
(* The natural-language layer (services/nlu and utils/nlu.js) and the      *)
(* chat and compare handlers are modelled in the second part of the        *)
(* module, over a query text held as a sequence of characters; NluSpec is  *)
(* the specification of the exported functions, HandlerSpec the one of the *)
(* search, chat and compare handlers.  PaymentSpec covers the              *)
(* calculate-payment handlers, CatalogSpec a running server and its        *)
(* catalog array, ClientSpec the clients of one server and the             *)
(* vehicles_update broadcasts.                                             *)
(***************************************************************************)
EXTENDS Integers, Sequences, FiniteSets, TLC

VARIABLES params, called, result, query, text, catalog, held, inflight

vars == <<params, called, result, query, text, catalog, held, inflight>>

(***************************************************************************)
(* Bounds of the input grid.                                               *)
(***************************************************************************)
MaxPriceSteps == 2
MaxDownSteps == 2
MaxTradeInSteps == 1
MaxTermYears == 2

(***************************************************************************)
(* Exact rational arithmetic (the JavaScript operators + - * / and the     *)
(* comparisons on numbers).                                                *)
(***************************************************************************)
Abs(x) == IF x < 0 THEN -x ELSE x

RECURSIVE Gcd(_, _)
Gcd(a, b) == IF b = 0 THEN a ELSE Gcd(b, a % b)

\* n / d in lowest terms, d > 0
Rat(n, d) ==
  LET g == Gcd(Abs(n), d)
  IN  [n |-> n \div g, d |-> d \div g]

RInt(k) == [n |-> k, d |-> 1]

RNeg(x) == [n |-> -x.n, d |-> x.d]

RAdd(x, y) ==
  IF x.d = 1 /\ y.d = 1 THEN RInt(x.n + y.n)
  ELSE LET g == Gcd(x.d, y.d)
       IN  Rat(x.n * (y.d \div g) + y.n * (x.d \div g), (x.d \div g) * y.d)

RSub(x, y) == RAdd(x, RNeg(y))

RMul(x, y) ==
  IF x.d = 1 /\ y.d = 1 THEN RInt(x.n * y.n)
  ELSE LET g1 == Gcd(Abs(x.n), y.d)
           g2 == Gcd(Abs(y.n), x.d)
       IN  Rat((x.n \div g1) * (y.n \div g2), (x.d \div g2) * (y.d \div g1))

\* x / k for an integer k > 0
RDivInt(x, k) == RMul(x, [n |-> 1, d |-> k])

RLt(x, y) == x.n * y.d < y.n * x.d
RLe(x, y) == x.n * y.d <= y.n * x.d
RGe(x, y) == RLe(y, x)
RIsZero(x) == x.n = 0

\* Math.round: the nearest integer, a tie going towards +Infinity
MathRound(x) ==
  IF x.d = 1 THEN x ELSE RInt((2 * x.n + x.d) \div (2 * x.d))

(***************************************************************************)
(* Fixed point for the amortization formula.  No intermediate value may    *)
(* leave the machine integers, so products and quotients are taken by      *)
(* parts.  MulDivQR(a, b, c) is <<q, r>> with a * b = q * c + r and        *)
(* 0 <= r < c, over the hexadecimal digits of b (it needs 32 * c < 2^31).  *)
(* LongDiv(n, d, k) is floor(n * 10^k / d), digit by digit.                *)
(***************************************************************************)
RECURSIVE MulDivQR(_, _, _)
MulDivQR(a, b, c) ==
  IF b = 0 THEN <<0, 0>>
  ELSE LET h == MulDivQR(a, b \div 16, c)
           t == 16 * h[2] + (b % 16) * (a % c)
       IN  IF h[1] >= 0
           THEN <<16 * h[1] + (b % 16) * (a \div c) + (t \div c), t % c>>
           ELSE <<0, 0>>

\* floor(a * b / c) for a, b >= 0 and c > 0
MulDiv(a, b, c) ==
  IF a < 0 \/ b < 0 \/ c <= 0 THEN 0
  ELSE IF a < b THEN MulDivQR(b, a, c)[1]
  ELSE MulDivQR(a, b, c)[1]

RECURSIVE LongDiv(_, _, _)
LongDiv(n, d, k) ==
  IF k = 0 THEN n \div d
  ELSE (n \div d) * 10^k + LongDiv((n % d) * 10, d, k - 1)

\* the fixed-point scale of a power: 10^8, two limbs of 10^4
PowScale == 10^8
Limb == 10^4

\* a * b / PowScale to the nearest unit, for a, b at scale PowScale, by limbs
FixMul(a, b) ==
  LET a1 == a \div Limb
      a0 == a % Limb
      b1 == b \div Limb
      b0 == b % Limb
      h  == Limb \div 2
  IN  a1 * b1 + ((a1 * b0 + a0 * b1 + ((a0 * b0 + h) \div Limb) + h) \div Limb)

\* b^n for b at scale PowScale, by squaring
RECURSIVE FixPow(_, _)
FixPow(b, n) ==
  IF n = 0 THEN PowScale
  ELSE LET h  == FixPow(b, n \div 2)
           sq == FixMul(h, h)
       IN  IF h > 0 /\ n % 2 = 1 THEN FixMul(sq, b) ELSE sq

(***************************************************************************)
(* Results.  A thrown Error is the record ThrowError(message).             *)
(***************************************************************************)
ThrowError(message) == [type |-> "error", message |-> message]

NoResult == [type |-> "none"]

IsError(r) == r.type = "error"

(***************************************************************************)
(* The shared prefix of the three calculators.                             *)
(***************************************************************************)
Tax(p) == RMul(p.price, p.taxRate)

AdjustedPrice(p) == RAdd(p.price, Tax(p))

\* variant: the trade-in is added to the amount financed
NetPrice_TradeInAdded(p) == RSub(RAdd(AdjustedPrice(p), p.tradeInValue), p.downPayment)

NetPrice(p) == RSub(RSub(AdjustedPrice(p), p.tradeInValue), p.downPayment)

(***************************************************************************)
(* calculatePurchase                                                       *)
(***************************************************************************)
\* the input validation: the message of the first failing check, or "ok"
ValidatePurchase(p) ==
  IF RLe(p.price, RInt(0)) THEN "Price must be positive"
  ELSE IF p.termMonths <= 0 THEN "Term must be positive"
  ELSE IF RLt(p.downPayment, RInt(0)) THEN "Down payment cannot be negative"
  ELSE IF RLt(p.tradeInValue, RInt(0)) THEN "Trade-in value cannot be negative"
  ELSE IF RLt(p.taxRate, RInt(0)) \/ RLt(RInt(1), p.taxRate)
       THEN "Tax rate must be between 0 and 1"
  ELSE "ok"

\* variant: the covered case forgets the down payment
PurchaseCovered_NoDownPayment(p) ==
  RLe(RSub(AdjustedPrice(p), p.tradeInValue), RInt(0))

\* netPrice <= 0: trade-in plus down payment cover the adjusted price
PurchaseCovered(p) == RLe(NetPrice(p), RInt(0))

\* the early return of the covered case
PurchaseCoveredResult(p) ==
  [ monthlyPayment |-> RInt(0),
    totalCost      |-> RAdd(p.downPayment, p.tradeInValue),
    totalInterest  |-> RInt(0),
    breakdown      |-> [ principal |-> RInt(0),
                         interest  |-> RInt(0),
                         taxes     |-> Tax(p),
                         tradeIn   |-> p.tradeInValue ],
    type           |-> "purchase" ]

\* monthlyRate = apr / 100 / 12
MonthlyRate(p) == RDivInt(RDivInt(p.apr, 100), 12)

\* netPrice * r * (1+r)^n / ((1+r)^n - 1) for netPrice > 0 and r > 0, at
\* 1/10000 of a currency unit
Amortize(netPrice, monthlyRate, termMonths) ==
  LET base   == RAdd(RInt(1), monthlyRate)
      \* 1 + r at scale PowScale, to the nearest unit
      baseFx == (LongDiv(base.n, base.d, 9) + 5) \div 10
      powFx  == FixPow(baseFx, termMonths)
      nr     == RMul(netPrice, monthlyRate)
  IN  IF baseFx > PowScale /\ powFx > PowScale /\ nr.n > 0
      THEN \* (1+r)^n / ((1+r)^n - 1) at scale 10^7, times netPrice * r
           Rat(MulDiv(nr.n, LongDiv(powFx, powFx - PowScale, 7),
                      nr.d * 1000),
               10000)
      ELSE RInt(0)

\* the unrounded monthly payment of a financed purchase (netPrice > 0)
PurchaseMonthly(p, netPrice) ==
  IF RIsZero(MonthlyRate(p)) \/ RIsZero(p.apr)
  THEN RDivInt(netPrice, p.termMonths)
  ELSE Amortize(netPrice, MonthlyRate(p), p.termMonths)

\* variant: the total is built from the rounded monthly payment
PurchaseTotalCost_Rounded(p, monthlyPayment) ==
  RAdd(RAdd(RMul(MathRound(monthlyPayment), RInt(p.termMonths)),
            p.downPayment),
       p.tradeInValue)

\* monthlyPayment * termMonths + downPayment + tradeInValue
PurchaseTotalCost(p, monthlyPayment) ==
  RAdd(RAdd(RMul(monthlyPayment, RInt(p.termMonths)), p.downPayment),
       p.tradeInValue)

PurchaseFinancedResult(p) ==
  LET tax            == Tax(p)
      adjustedPrice  == AdjustedPrice(p)
      netPrice       == NetPrice(p)
      monthlyPayment == PurchaseMonthly(p, netPrice)
      totalCost      == PurchaseTotalCost(p, monthlyPayment)
      totalInterest  == RSub(totalCost, adjustedPrice)
  IN  [ monthlyPayment |-> MathRound(monthlyPayment),
        totalCost      |-> MathRound(totalCost),
        totalInterest  |-> MathRound(totalInterest),
        breakdown      |-> [ principal |-> MathRound(netPrice),
                             interest  |-> MathRound(totalInterest),
                             taxes     |-> MathRound(tax),
                             tradeIn   |-> p.tradeInValue ],
        type           |-> "purchase" ]

calculatePurchase(p) ==
  IF ValidatePurchase(p) # "ok" THEN ThrowError(ValidatePurchase(p))
  ELSE IF PurchaseCovered(p) THEN PurchaseCoveredResult(p)
  ELSE PurchaseFinancedResult(p)

(***************************************************************************)
(* calculateLease                                                          *)
(***************************************************************************)
ValidateLease(p) ==
  IF RLe(p.price, RInt(0)) THEN "Price must be positive"
  ELSE IF p.termMonths <= 0 THEN "Term must be positive"
  ELSE IF RLt(p.downPayment, RInt(0)) THEN "Down payment cannot be negative"
  ELSE "ok"

\* Math.round(price * 0.55)
DefaultResidual(p) == MathRound(RMul(p.price, Rat(55, 100)))

\* residualValue || default: undefined and 0 are both falsy
LeaseResidual(p) ==
  IF p.residualGiven /\ ~RIsZero(p.residualValue)
  THEN p.residualValue
  ELSE DefaultResidual(p)

\* variant: a residual equal to the net price is let through
ResidualTooHigh_Strict(residual, netPrice) == RLt(netPrice, residual)

\* the guard of 'Residual value cannot exceed net price'
ResidualTooHigh(residual, netPrice) == RGe(residual, netPrice)

\* variant: the money factor divides by 1200
MoneyFactor_1200(p) == RDivInt(p.apr, 1200)

\* moneyFactor = apr / 2400
MoneyFactor(p) == RDivInt(p.apr, 2400)

\* monthlyPayment * termMonths + downPayment + tradeInValue
LeaseTotalCost(p, monthlyPayment) ==
  RAdd(RAdd(RMul(monthlyPayment, RInt(p.termMonths)), p.downPayment),
       p.tradeInValue)

LeaseResult(p) ==
  LET tax                 == Tax(p)
      netPrice            == NetPrice(p)
      residual            == LeaseResidual(p)
      depreciation        == RSub(netPrice, residual)
      monthlyDepreciation == RDivInt(depreciation, p.termMonths)
      monthlyFinance      == RMul(RAdd(netPrice, residual), MoneyFactor(p))
      monthlyPayment      == RAdd(monthlyDepreciation, monthlyFinance)
      totalCost           == LeaseTotalCost(p, monthlyPayment)
  IN  [ monthlyPayment |-> MathRound(monthlyPayment),
        totalCost      |-> MathRound(totalCost),
        residualValue  |-> residual,
        breakdown      |-> [ depreciation |-> MathRound(monthlyDepreciation),
                             finance      |-> MathRound(monthlyFinance),
                             taxes        |-> MathRound(tax),
                             tradeIn      |-> p.tradeInValue ],
        type           |-> "lease" ]

calculateLease(p) ==
  IF ValidateLease(p) # "ok" THEN ThrowError(ValidateLease(p))
  ELSE IF ResidualTooHigh(LeaseResidual(p), NetPrice(p))
       THEN ThrowError("Residual value cannot exceed net price")
  ELSE LeaseResult(p)

(***************************************************************************)
(* calculateSubscription                                                   *)
(***************************************************************************)
ValidateSubscription(p) ==
  IF RLe(p.price, RInt(0)) THEN "Price must be positive"
  ELSE IF p.termMonths <= 0 THEN "Term must be positive"
  ELSE "ok"

\* the fixed monthly costs
insurance == 150
maintenance == 100

\* variant: the vehicle portion is taken from the price, not the net price
VehiclePortion_OfPrice(p, netPrice) ==
  RDivInt(RMul(p.price, Rat(6, 10)), p.termMonths)

\* (netPrice * 0.6) / termMonths
VehiclePortion(p, netPrice) ==
  RDivInt(RMul(netPrice, Rat(6, 10)), p.termMonths)

\* monthlyPayment * termMonths + downPayment + tradeInValue
SubscriptionTotalCost(p, monthlyPayment) ==
  RAdd(RAdd(RMul(monthlyPayment, RInt(p.termMonths)), p.downPayment),
       p.tradeInValue)

SubscriptionResult(p) ==
  LET tax            == Tax(p)
      netPrice       == NetPrice(p)
      vehiclePortion == VehiclePortion(p, netPrice)
      monthlyPayment == RAdd(RAdd(vehiclePortion, RInt(insurance)),
                             RInt(maintenance))
      totalCost      == SubscriptionTotalCost(p, monthlyPayment)
  IN  [ monthlyPayment |-> MathRound(monthlyPayment),
        totalCost      |-> MathRound(totalCost),
        breakdown      |-> [ vehicle     |-> MathRound(vehiclePortion),
                             insurance   |-> RInt(insurance),
                             maintenance |-> RInt(maintenance),
                             taxes       |-> MathRound(tax),
                             tradeIn     |-> p.tradeInValue ],
        type           |-> "subscription" ]

calculateSubscription(p) ==
  IF ValidateSubscription(p) # "ok" THEN ThrowError(ValidateSubscription(p))
  ELSE SubscriptionResult(p)

(***************************************************************************)
(* calculateAllScenarios: the object literal evaluates its three members   *)
(* in order; the first one that throws ends the call.                      *)
(***************************************************************************)
\* variant: the buy and lease members are exchanged
AllScenariosResult_Swapped(buy, lease, subscription) ==
  [ type |-> "scenarios", buy |-> lease, lease |-> buy,
    subscription |-> subscription ]

AllScenariosResult(buy, lease, subscription) ==
  [ type |-> "scenarios", buy |-> buy, lease |-> lease,
    subscription |-> subscription ]

calculateAllScenarios(p) ==
  IF IsError(calculatePurchase(p)) THEN calculatePurchase(p)
  ELSE IF IsError(calculateLease(p)) THEN calculateLease(p)
  ELSE IF IsError(calculateSubscription(p)) THEN calculateSubscription(p)
  ELSE AllScenariosResult(calculatePurchase(p), calculateLease(p),
                          calculateSubscription(p))

(***************************************************************************)
(* Inputs: a grid around the validation and edge-case boundaries, and the  *)
(* parameter sets of the unit tests.                                       *)
(***************************************************************************)
Params(price, downPayment, apr, termMonths, residualGiven, residualValue, tradeInValue, taxRate) ==
  [ price |-> price, downPayment |-> downPayment, apr |-> apr,
    termMonths |-> termMonths, residualGiven |-> residualGiven,
    residualValue |-> residualValue, tradeInValue |-> tradeInValue,
    taxRate |-> taxRate ]

Prices == { RInt(125 * k) : k \in -1 .. MaxPriceSteps }
DownPayments == { RInt(50 * k) : k \in -1 .. MaxDownSteps }
TradeIns == { RInt(200 * k) : k \in -1 .. MaxTradeInSteps }
Terms == { 12 * k : k \in -1 .. MaxTermYears }
TaxRates == { Rat(k, 100) : k \in {-1, 0, 7, 101} }
Aprs == { RInt(0), Rat(55, 10) }
\* residualValue: omitted, or supplied as 0, 60 or 125
Residuals == { <<FALSE, RInt(0)>>, <<TRUE, RInt(0)>>, <<TRUE, RInt(60)>>,
               <<TRUE, RInt(125)>> }

GridInputs ==
  { Params(pr, dp, a, t, rv[1], rv[2], ti, tx) :
      pr \in Prices, dp \in DownPayments, a \in Aprs, t \in Terms,
      rv \in Residuals, ti \in TradeIns, tx \in TaxRates }

\* baseParams of the unit tests
baseParams ==
  Params(RInt(30000), RInt(2000), Rat(55, 10), 60, FALSE, RInt(0), RInt(0),
         Rat(8, 100))

\* the parameter sets the unit tests derive from baseParams
TestInputs ==
  { baseParams,
    [baseParams EXCEPT !.apr = RInt(0)],
    [baseParams EXCEPT !.tradeInValue = RInt(5000)],
    [baseParams EXCEPT !.downPayment = RInt(25000)],
    [baseParams EXCEPT !.price = RInt(-1000)],
    [baseParams EXCEPT !.price = RInt(0)],
    [baseParams EXCEPT !.termMonths = 0],
    [baseParams EXCEPT !.termMonths = -10],
    [baseParams EXCEPT !.price = RInt(10000), !.tradeInValue = RInt(15000)],
    [baseParams EXCEPT !.price = RInt(10000), !.tradeInValue = RInt(15000),
                       !.downPayment = RInt(0), !.taxRate = RInt(0)],
    [baseParams EXCEPT !.termMonths = 36, !.apr = Rat(39, 10)],
    [baseParams EXCEPT !.termMonths = 36],
    [baseParams EXCEPT !.residualGiven = TRUE, !.residualValue = RInt(50000)] }

\* a trade-in far above the adjusted price, on a short term
EdgeInputs ==
  { [baseParams EXCEPT !.price = RInt(10000), !.tradeInValue = RInt(15000), !.termMonths = 12] }

Inputs == GridInputs \cup TestInputs \cup EdgeInputs

(***************************************************************************)
(* The state machine: one request carries one FinancingParams value and    *)
(* is answered by one call of one of the four exported functions.          *)
(***************************************************************************)
Init ==
  /\ params \in Inputs
  /\ called = "none"
  /\ result = NoResult
  /\ query = [kind |-> "none"]
  /\ text = << >>
  /\ catalog = << >>
  /\ held = << >>
  /\ inflight = << >>

CallPurchase ==
  /\ called = "none"
  /\ called' = "calculatePurchase"
  /\ result' = calculatePurchase(params)
  /\ UNCHANGED <<params, query, text, catalog, held, inflight>>

CallLease ==
  /\ called = "none"
  /\ called' = "calculateLease"
  /\ result' = calculateLease(params)
  /\ UNCHANGED <<params, query, text, catalog, held, inflight>>

CallSubscription ==
  /\ called = "none"
  /\ called' = "calculateSubscription"
  /\ result' = calculateSubscription(params)
  /\ UNCHANGED <<params, query, text, catalog, held, inflight>>

CallAllScenarios ==
  /\ called = "none"
  /\ called' = "calculateAllScenarios"
  /\ result' = calculateAllScenarios(params)
  /\ UNCHANGED <<params, query, text, catalog, held, inflight>>

Next ==
  \/ CallPurchase
  \/ CallLease
  \/ CallSubscription
  \/ CallAllScenarios

Spec == Init /\ [][Next]_vars

TypeOK ==
  /\ params \in Inputs
  /\ called \in {"none", "calculatePurchase", "calculateLease",
                 "calculateSubscription", "calculateAllScenarios"}

(***************************************************************************)
(* Vocabulary of the properties.                                           *)
(***************************************************************************)
RAbs(x) == [n |-> Abs(x.n), d |-> x.d]

\* the net financed amount: price + price*taxRate - tradeInValue - downPayment
NetFinanced(p) ==
  RSub(RSub(RAdd(p.price, RMul(p.price, p.taxRate)), p.tradeInValue),
       p.downPayment)

\* the documented domain of Financing Parameters
InDomain(p) ==
  /\ p.price.n > 0
  /\ p.downPayment.n >= 0
  /\ p.apr.n >= 0 /\ RLe(p.apr, RInt(100))
  /\ p.termMonths > 0
  /\ p.tradeInValue.n >= 0
  /\ p.taxRate.n >= 0 /\ RLe(p.taxRate, RInt(1))

\* a value outside the constraints every calculator must enforce
OutOfDomain(p) ==
  \/ p.price.n <= 0
  \/ p.termMonths <= 0
  \/ p.downPayment.n < 0
  \/ p.tradeInValue.n < 0
  \/ p.taxRate.n < 0
  \/ RLt(RInt(1), p.taxRate)

IsWhole(x) == x.d = 1

\* every numeric field of a Payment Calculation
NumericFields(r) ==
  { r[f] : f \in DOMAIN r \ {"type", "breakdown"} }
    \cup { r.breakdown[f] : f \in DOMAIN r.breakdown }

Calculators == {"calculatePurchase", "calculateLease", "calculateSubscription"}

(***************************************************************************)
(* C1: calculatePurchase, on an input that passes validation and whose     *)
(* net financed amount is <= 0, takes the early return: monthlyPayment 0,  *)
(* totalInterest 0 and totalCost = downPayment + tradeInValue.             *)
(***************************************************************************)
C1_CoveredPurchase ==
  ( /\ called = "calculatePurchase"
    /\ ValidatePurchase(params) = "ok"
    /\ RLe(NetFinanced(params), RInt(0)) )
  => /\ PurchaseCovered(params)
     /\ result.type = "purchase"
     /\ result.monthlyPayment = RInt(0)
     /\ result.totalInterest = RInt(0)
     /\ result.totalCost = RAdd(params.downPayment, params.tradeInValue)

\* price=10000, tradeInValue=15000, downPayment=0, taxRate=0 gives 15000
C1_Witness ==
  /\ called = "calculatePurchase"
  /\ params.price = RInt(10000)
  /\ params.tradeInValue = RInt(15000)
  /\ params.downPayment = RInt(0)
  /\ params.taxRate = RInt(0)
  /\ result.monthlyPayment = RInt(0)
  /\ result.totalCost = RInt(15000)

(***************************************************************************)
(* C2: calculatePurchase with apr = 0 and a net financed amount > 0 is     *)
(* straight-line: monthlyPayment = round(net / termMonths), so             *)
(* monthlyPayment * termMonths is within termMonths/2 of the net amount,   *)
(* and the reported totalInterest is 0.                                    *)
(***************************************************************************)
C2_ZeroAprStraightLine ==
  ( /\ called = "calculatePurchase"
    /\ InDomain(params)
    /\ RIsZero(params.apr)
    /\ RLt(RInt(0), NetFinanced(params)) )
  => /\ result.type = "purchase"
     /\ result.monthlyPayment =
          MathRound(RDivInt(NetFinanced(params), params.termMonths))
     /\ RLe(RAbs(RSub(RMul(result.monthlyPayment, RInt(params.termMonths)),
                      NetFinanced(params))),
            Rat(params.termMonths, 2))
     /\ result.totalInterest = RInt(0)

\* baseParams at 0% APR: 30400 / 60 = 506.67, reported as 507
C2_Witness ==
  /\ called = "calculatePurchase"
  /\ params = [baseParams EXCEPT !.apr = RInt(0)]
  /\ result.monthlyPayment = RInt(507)
  /\ result.totalInterest = RInt(0)

(***************************************************************************)
(* C3: each of the three calculators fails with an error whenever          *)
(* price <= 0, termMonths <= 0, downPayment < 0, tradeInValue < 0 or       *)
(* taxRate is outside [0,1].                                               *)
(***************************************************************************)
C3_AllValidate ==
  (called \in Calculators /\ OutOfDomain(params)) => IsError(result)

(***************************************************************************)
(* C4: calculateLease, on an input with price > 0, termMonths > 0 and      *)
(* downPayment >= 0, fails exactly when the residual in use is >= the net  *)
(* financed amount; every lease result has residualValue < net amount.     *)
(***************************************************************************)
C4_ResidualBelowNet ==
  ( /\ called = "calculateLease"
    /\ params.price.n > 0
    /\ params.termMonths > 0
    /\ params.downPayment.n >= 0 )
  => /\ IsError(result)
          <=> RGe(LeaseResidual(params), NetFinanced(params))
     /\ ~IsError(result)
          => RLt(result.residualValue, NetFinanced(params))

\* baseParams with residualValue = 50000 throws
C4_Witness ==
  /\ called = "calculateLease"
  /\ params = [baseParams EXCEPT !.residualGiven = TRUE,
                                 !.residualValue = RInt(50000)]
  /\ result = ThrowError("Residual value cannot exceed net price")

(***************************************************************************)
(* C5, as stated: for every in-domain value calculateAllScenarios returns  *)
(* the labeled triple of the three calculators' results.                   *)
(***************************************************************************)
IsLabeledTriple(r, p) ==
  /\ r.type = "scenarios"
  /\ r.buy.type = "purchase"
  /\ r.lease.type = "lease"
  /\ r.subscription.type = "subscription"
  /\ r.buy = calculatePurchase(p)
  /\ r.lease = calculateLease(p)
  /\ r.subscription = calculateSubscription(p)

C5_AlwaysTriple ==
  (called = "calculateAllScenarios" /\ InDomain(params))
  => IsLabeledTriple(result, params)

(***************************************************************************)
(* C5, amended: for every in-domain value whose lease residual in use is   *)
(* below the net financed amount calculateAllScenarios returns the labeled *)
(* triple; for the other in-domain values it fails with calculateLease's   *)
(* error and returns no triple.                                            *)
(***************************************************************************)
C5_TripleUnlessLeaseFails ==
  (called = "calculateAllScenarios" /\ InDomain(params))
  => IF RLt(LeaseResidual(params), NetFinanced(params))
     THEN IsLabeledTriple(result, params)
     ELSE result = ThrowError("Residual value cannot exceed net price")

C5_Witness ==
  /\ called = "calculateAllScenarios"
  /\ params = baseParams
  /\ result.type = "scenarios"
  /\ result.buy.type = "purchase"
  /\ result.lease.residualValue = RInt(16500)

(***************************************************************************)
(* C6: for baseParams, subscription.monthlyPayment exceeds both            *)
(* lease.monthlyPayment and buy.monthlyPayment.                            *)
(***************************************************************************)
C6_SubscriptionHighest ==
  (called = "calculateAllScenarios" /\ params = baseParams)
  => /\ result.type = "scenarios"
     /\ RLt(result.lease.monthlyPayment, result.subscription.monthlyPayment)
     /\ RLt(result.buy.monthlyPayment, result.subscription.monthlyPayment)

(***************************************************************************)
(* C7: calculateLease uses the caller-supplied residualValue for every     *)
(* supplied value >= 0 and the 55% default only when it is omitted; the    *)
(* reported residualValue is the residual used in the computation.         *)
(***************************************************************************)
C7_SuppliedResidualUsed ==
  (called = "calculateLease" /\ ~IsError(result))
  => /\ (params.residualGiven /\ params.residualValue.n >= 0)
          => result.residualValue = params.residualValue
     /\ result.residualValue # params.residualValue
          => ~params.residualGiven
     /\ result.breakdown.depreciation =
          MathRound(RDivInt(RSub(NetFinanced(params), result.residualValue),
                            params.termMonths))

(***************************************************************************)
(* C8: on every input on which calculateLease returns,                     *)
(* monthlyPayment = round((net - residual)/termMonths                      *)
(*                        + (net + residual) * apr/2400) and               *)
(* totalCost = round(unroundedMonthly * termMonths + downPayment           *)
(*                   + tradeInValue).                                      *)
(***************************************************************************)
ReferenceLeaseMonthly(p, residual) ==
  RAdd(RDivInt(RSub(NetFinanced(p), residual), p.termMonths),
       RMul(RAdd(NetFinanced(p), residual), RMul(p.apr, Rat(1, 2400))))

C8_LeaseFormula ==
  (called = "calculateLease" /\ ~IsError(result))
  => /\ result.monthlyPayment =
          MathRound(ReferenceLeaseMonthly(params, result.residualValue))
     /\ result.totalCost =
          MathRound(RAdd(RAdd(RMul(ReferenceLeaseMonthly(params,
                                                         result.residualValue),
                                   RInt(params.termMonths)),
                              params.downPayment),
                         params.tradeInValue))

\* the lease unit test: 13900/36 + 46900 * 3.9/2400 = 462.32
C8_Witness ==
  /\ called = "calculateLease"
  /\ params = [baseParams EXCEPT !.termMonths = 36, !.apr = Rat(39, 10)]
  /\ result.monthlyPayment = RInt(462)

(***************************************************************************)
(* C9: on every input on which calculateSubscription returns,              *)
(* monthlyPayment = round(0.6 * net / termMonths + 150 + 100), the         *)
(* breakdown shows insurance 150 and maintenance 100, and the result does  *)
(* not depend on apr or residualValue.                                     *)
(***************************************************************************)
C9_SubscriptionFormula ==
  (called = "calculateSubscription" /\ ~IsError(result))
  => /\ result.monthlyPayment =
          MathRound(RAdd(RDivInt(RMul(Rat(6, 10), NetFinanced(params)),
                                 params.termMonths),
                         RInt(250)))
     /\ result.breakdown.insurance = RInt(150)
     /\ result.breakdown.maintenance = RInt(100)
     /\ \A a \in Aprs \cup {Rat(39, 10)}, rv \in Residuals :
          calculateSubscription([params EXCEPT !.apr = a,
                                               !.residualGiven = rv[1],
                                               !.residualValue = rv[2]])
            = result

\* the subscription unit test: 0.6 * 30400 / 36 + 250 = 756.67
C9_Witness ==
  /\ called = "calculateSubscription"
  /\ params = [baseParams EXCEPT !.termMonths = 36]
  /\ result.monthlyPayment = RInt(757)
  /\ result.breakdown.vehicle = RInt(507)

(***************************************************************************)
(* C10: every numeric field of every Payment Calculation returned by any   *)
(* of the three calculators is a whole currency unit, for all valid        *)
(* parameters.                                                             *)
(***************************************************************************)
C10_AllFieldsWhole ==
  (called \in Calculators /\ InDomain(params) /\ ~IsError(result))
  => \A x \in NumericFields(result) : IsWhole(x)

(***************************************************************************)
(* C11: no intermediate quantity is rounded before a later step uses it:   *)
(* each reported figure is the rounding of the value of the exact formula. *)
(* For a lease whose residual is the 55% default, monthlyPayment and       *)
(* totalCost are the roundings of the lease formula evaluated at the exact *)
(* residual 0.55 * price; for a subscription and a 0% APR purchase they    *)
(* are the roundings of the exact formula over the net amount.             *)
(***************************************************************************)
ExactDefaultResidual(p) == RMul(p.price, Rat(55, 100))

ExactLeaseTotal(p, residual) ==
  RAdd(RAdd(RMul(ReferenceLeaseMonthly(p, residual), RInt(p.termMonths)),
            p.downPayment),
       p.tradeInValue)

C11_NoIntermediateRounding ==
  /\ ( /\ called = "calculateLease"
       /\ InDomain(params)
       /\ ~params.residualGiven
       /\ ~IsError(result) )
     => /\ result.monthlyPayment =
             MathRound(ReferenceLeaseMonthly(params,
                                             ExactDefaultResidual(params)))
        /\ result.totalCost =
             MathRound(ExactLeaseTotal(params, ExactDefaultResidual(params)))
  /\ ( /\ called = "calculateSubscription"
       /\ InDomain(params)
       /\ ~IsError(result) )
     => result.breakdown.vehicle =
          MathRound(RDivInt(RMul(Rat(6, 10), NetFinanced(params)),
                            params.termMonths))
  /\ ( /\ called = "calculatePurchase"
       /\ InDomain(params)
       /\ RIsZero(params.apr)
       /\ ~IsError(result)
       /\ ~RLe(NetFinanced(params), RInt(0)) )
     => result.monthlyPayment =
          MathRound(RDivInt(NetFinanced(params), params.termMonths))

(***************************************************************************)
(* PART II. The natural-language layer.                                    *)
(*                                                                         *)
(* A JavaScript string is a sequence of one-character strings.  S spells   *)
(* the string literals of the sources and of the queries, Words joins      *)
(* literals by single spaces.                                              *)
(***************************************************************************)
\* the characters of a literal, each a string of length one
S(w) == [i \in 1 .. Len(w) |-> SubSeq(w, i, i)]

RECURSIVE Words(_)
Words(ws) ==
  IF Len(ws) = 0 THEN << >>
  ELSE IF Len(ws) = 1 THEN S(ws[1])
  ELSE S(ws[1]) \o <<" ">> \o Words(Tail(ws))

\* the set of literals of a keyword list
SS(ws) == { S(w) : w \in ws }

\* String.prototype.toLowerCase on the letters the queries use
LowerChar(c) ==
  CASE c = "A" -> "a" [] c = "B" -> "b" [] c = "C" -> "c" [] c = "D" -> "d"
    [] c = "E" -> "e" [] c = "F" -> "f" [] c = "G" -> "g" [] c = "H" -> "h"
    [] c = "I" -> "i" [] c = "J" -> "j" [] c = "K" -> "k" [] c = "L" -> "l"
    [] c = "M" -> "m" [] c = "N" -> "n" [] c = "O" -> "o" [] c = "P" -> "p"
    [] c = "Q" -> "q" [] c = "R" -> "r" [] c = "S" -> "s" [] c = "T" -> "t"
    [] c = "U" -> "u" [] c = "V" -> "v" [] c = "W" -> "w" [] c = "X" -> "x"
    [] c = "Y" -> "y" [] c = "Z" -> "z" [] OTHER -> c

toLowerCase(t) == [i \in 1 .. Len(t) |-> LowerChar(t[i])]

\* the literal s occurs in t at index i (1-based)
StartsAt(t, s, i) ==
  /\ i >= 1
  /\ i + Len(s) - 1 <= Len(t)
  /\ \A j \in 1 .. Len(s) : t[i + j - 1] = s[j]

\* String.prototype.includes
includes(t, s) == \E i \in 1 .. (Len(t) - Len(s) + 1) : StartsAt(t, s, i)

\* RegExp.prototype.test of an alternation of literals  /a|b|c/
TestAny(t, literals) == \E s \in literals : includes(t, s)

IsSpace(c) == c = " "

\* String.prototype.trim
RECURSIVE trim(_)
trim(t) ==
  IF Len(t) = 0 THEN t
  ELSE IF IsSpace(t[1]) THEN trim(Tail(t))
  ELSE IF IsSpace(t[Len(t)]) THEN trim(SubSeq(t, 1, Len(t) - 1))
  ELSE t

(***************************************************************************)
(* detectIntent.  services/nlu (TypeScript) tests compare, finance, filter *)
(* in that order; utils/nlu.js walks INTENT_PATTERNS in insertion order:   *)
(* search, compare, filter, finance.                                       *)
(***************************************************************************)
ComparePatternTs == SS({"vs", "versus", "compare to", "compared to", "compare"})

FinancePattern == SS({"finance", "payment", "lease", "buy", "purchase", "monthly", "afford", "price", "cost"})

FilterPatternTs == SS({"filter", "only", "just", "with", "has", "need", "must"})

detectIntentTs(t) ==
  LET lowerText == toLowerCase(t)
  IN  IF TestAny(lowerText, ComparePatternTs) THEN "compare"
      ELSE IF TestAny(lowerText, FinancePattern) THEN "finance"
      ELSE IF TestAny(lowerText, FilterPatternTs) THEN "filter"
      ELSE "search"

SearchPatternJs == SS({"show", "find", "search", "look for", "display", "list", "get", "see", "want", "need", "looking for"})

ComparePatternJs == SS({"compare", "vs", "versus", "compared to", "comparison", "difference", "different", "against"})

FilterPatternJs == SS({"filter", "only", "just", "with", "has", "have", "need", "must"})

\* INTENT_PATTERNS in insertion order
INTENT_PATTERNS ==
  << [intent |-> "search", pattern |-> SearchPatternJs],
     [intent |-> "compare", pattern |-> ComparePatternJs],
     [intent |-> "filter", pattern |-> FilterPatternJs],
     [intent |-> "finance", pattern |-> FinancePattern] >>

detectIntentJs(t) ==
  LET lowerText == toLowerCase(t)
      hits == { i \in 1 .. Len(INTENT_PATTERNS) :
                  TestAny(lowerText, INTENT_PATTERNS[i].pattern) }
  IN  IF hits = {} THEN "search"
      ELSE INTENT_PATTERNS[CHOOSE i \in hits : \A j \in hits : i <= j].intent

(***************************************************************************)
(* extractPriceRange and parsePrice.  An optional value (a field that is   *)
(* undefined or null) is the empty sequence, a present one <<v>>.          *)
(***************************************************************************)
None == << >>

Some(v) == <<v>>

IsDigit(c) == c \in {"0", "1", "2", "3", "4", "5", "6", "7", "8", "9"}

DigitVal(c) ==
  CASE c = "0" -> 0 [] c = "1" -> 1 [] c = "2" -> 2 [] c = "3" -> 3
    [] c = "4" -> 4 [] c = "5" -> 5 [] c = "6" -> 6 [] c = "7" -> 7
    [] c = "8" -> 8 [] c = "9" -> 9

DigitAt(t, i) == i >= 1 /\ i <= Len(t) /\ IsDigit(t[i])

\* (?:,\d{3}) at index i
CommaGroupAt(t, i) ==
  /\ i + 3 <= Len(t)
  /\ t[i] = ","
  /\ IsDigit(t[i + 1]) /\ IsDigit(t[i + 2]) /\ IsDigit(t[i + 3])

\* \s* from index i: the index of the first character that is not a space
RECURSIVE SkipSpaces(_, _)
SkipSpaces(t, i) ==
  IF i <= Len(t) /\ IsSpace(t[i]) THEN SkipSpaces(t, i + 1) ELSE i

\* \$? from index i
SkipDollar(t, i) == IF i <= Len(t) /\ t[i] = "$" THEN i + 1 ELSE i

\* the ends (index after the last character) of every match of
\*   \d{1,3}(?:,\d{3})*(?:k|thousand)?   that starts at index i
PriceEnds(t, i) ==
  LET digitEnds == { i + k : k \in { k \in 1 .. 3 : \A j \in 0 .. k - 1 : DigitAt(t, i + j) } }
      groupEnds == UNION { { b + 4 * g : g \in { g \in 0 .. Len(t) \div 4 : \A h \in 0 .. g - 1 : CommaGroupAt(t, b + 4 * h) } } : b \in digitEnds }
      suffixEnds(e) == {e} \cup (IF StartsAt(t, S("k"), e) THEN {e + 1} ELSE {})
                           \cup (IF StartsAt(t, S("thousand"), e) THEN {e + 8} ELSE {})
  IN  UNION { suffixEnds(e) : e \in groupEnds }

\* the end of the match the greedy quantifiers take first, 0 when none
PriceGreedyEnd(t, i) ==
  LET digitEnds == { i + k : k \in { k \in 1 .. 3 : \A j \in 0 .. k - 1 : DigitAt(t, i + j) } }
  IN  IF digitEnds = {} THEN 0
      ELSE LET b == CHOOSE x \in digitEnds : \A y \in digitEnds : y <= x
               groups == { g \in 0 .. Len(t) \div 4 : \A h \in 0 .. g - 1 : CommaGroupAt(t, b + 4 * h) }
               e == b + 4 * (CHOOSE x \in groups : \A y \in groups : y <= x)
           IN  IF StartsAt(t, S("k"), e) THEN e + 1
               ELSE IF StartsAt(t, S("thousand"), e) THEN e + 8
               ELSE e

\* parseInt(clean, 10) of a string that starts with a digit
RECURSIVE parseIntFrom(_, _, _)
parseIntFrom(t, i, acc) ==
  IF DigitAt(t, i) THEN parseIntFrom(t, i + 1, 10 * acc + DigitVal(t[i])) ELSE acc

\* priceStr.replace(/[,k]/gi, '')
RemoveCommaK(t) == SelectSeq(t, LAMBDA c : c \notin {",", "k", "K"})

KMultiplier(priceStr) ==
  IF includes(toLowerCase(priceStr), S("k")) THEN 1000 ELSE 1

parsePrice(priceStr) ==
  parseIntFrom(RemoveCommaK(priceStr), 1, 0) * KMultiplier(priceStr)

\* the first match of  <lead>\s*\$?(PRICE)  for a lead among leads:
\* the captured group, or None
LeadMatch(t, leads) ==
  LET start(i, lead) == SkipDollar(t, SkipSpaces(t, i + Len(lead)))
      at == { i \in 1 .. Len(t) : \E lead \in leads : StartsAt(t, lead, i) /\ DigitAt(t, start(i, lead)) }
  IN  IF at = {} THEN None
      ELSE LET i == CHOOSE x \in at : \A y \in at : x <= y
               lead == CHOOSE l \in leads : StartsAt(t, l, i) /\ DigitAt(t, start(i, l))
               b == start(i, lead)
           IN  Some(SubSeq(t, b, PriceGreedyEnd(t, b) - 1))

DashChars == {"-"}

\* the first match of  \$?(PRICE)\s*[-]\s*\$?(PRICE) : the two groups, or None
RangeMatch(t) ==
  LET second(e) == SkipDollar(t, SkipSpaces(t, SkipSpaces(t, e) + 1))
      okEnd(e) == /\ SkipSpaces(t, e) <= Len(t)
                  /\ t[SkipSpaces(t, e)] \in DashChars
                  /\ DigitAt(t, second(e))
      at == { i \in 1 .. Len(t) : \E e \in PriceEnds(t, SkipDollar(t, i)) : okEnd(e) }
  IN  IF at = {} THEN None
      ELSE LET i == CHOOSE x \in at : \A y \in at : x <= y
               b == SkipDollar(t, i)
               e == CHOOSE x \in PriceEnds(t, b) : okEnd(x)
               c == second(e)
           IN  Some(<<SubSeq(t, b, e - 1), SubSeq(t, c, PriceGreedyEnd(t, c) - 1)>>)

UnderLeads == SS({"under"})

OverLeads == SS({"over", "above", "more than"})

\* the numeric patterns, applied after the keywords: they overwrite the
\* bounds the keywords set
NumericBounds(lowerText, keyword) ==
  LET underMatch == LeadMatch(lowerText, UnderLeads)
      overMatch == LeadMatch(lowerText, OverLeads)
      rangeMatch == RangeMatch(lowerText)
      max1 == IF underMatch # None THEN Some(parsePrice(underMatch[1])) ELSE keyword.max
      min1 == IF overMatch # None THEN Some(parsePrice(overMatch[1])) ELSE keyword.min
  IN  [min |-> IF rangeMatch # None THEN Some(parsePrice(rangeMatch[1][1])) ELSE min1,
       max |-> IF rangeMatch # None THEN Some(parsePrice(rangeMatch[1][2])) ELSE max1]

\* services/nlu: the keyword bounds
KeywordBoundsTs(lowerText) ==
  [min |-> IF TestAny(lowerText, SS({"luxury", "premium", "high-end"})) THEN Some(50000) ELSE None,
   max |-> IF TestAny(lowerText, SS({"affordable", "budget", "cheap"})) THEN Some(30000) ELSE None]

extractPriceRangeTs(t) ==
  LET lowerText == toLowerCase(t)
  IN  NumericBounds(lowerText, KeywordBoundsTs(lowerText))

\* utils/nlu.js: PRICE_KEYWORDS in insertion order; a later keyword
\* overwrites the bound an earlier one set
PRICE_KEYWORDS ==
  << [keyword |-> S("affordable"), min |-> None, max |-> Some(30000)],
     [keyword |-> S("budget"), min |-> None, max |-> Some(25000)],
     [keyword |-> S("cheap"), min |-> None, max |-> Some(25000)],
     [keyword |-> S("economical"), min |-> None, max |-> Some(30000)],
     [keyword |-> S("luxury"), min |-> Some(50000), max |-> None],
     [keyword |-> S("premium"), min |-> Some(40000), max |-> None],
     [keyword |-> S("expensive"), min |-> Some(40000), max |-> None],
     [keyword |-> S("high-end"), min |-> Some(50000), max |-> None] >>

KeywordBoundsJs(lowerText) ==
  LET setters(f) == { i \in 1 .. Len(PRICE_KEYWORDS) : PRICE_KEYWORDS[i][f] # None /\ includes(lowerText, PRICE_KEYWORDS[i].keyword) }
      last(f) == IF setters(f) = {} THEN None
                 ELSE PRICE_KEYWORDS[CHOOSE i \in setters(f) : \A j \in setters(f) : j <= i][f]
  IN  [min |-> last("min"), max |-> last("max")]

extractPriceRangeJs(t) ==
  LET lowerText == toLowerCase(t)
  IN  NumericBounds(lowerText, KeywordBoundsJs(lowerText))

(***************************************************************************)
(* The catalog (data/vehicles.json): the vehicles of the documentation and *)
(* of the tests, with the fields the natural-language layer and the        *)
(* handlers read.  Strings are kept as literals; S spells them where the   *)
(* code searches inside them.                                              *)
(***************************************************************************)
Color(name, code, imageUrl) == [name |-> name, code |-> code, imageUrl |-> imageUrl]

vehiclesData ==
  << [id |-> "TOY-2025-CAM-LE-HYB-001", make |-> "Toyota", model |-> "Camry", trim |-> "LE Hybrid",
      type |-> "Sedan", category |-> "Midsize", fuelType |-> "Hybrid", electrified |-> TRUE, drivetrain |-> "FWD", msrp |-> 30000, mpg |-> 52, horsepower |-> 208,
      colors |-> << Color("Ice Cap", "ICE", "camry-ice-cap.jpg"),
                    Color("Blueprint", "BLU", "camry-blueprint.jpg"),
                    Color("Celestial Silver Metallic", "CSM", "camry-celestial-silver.jpg") >>],
     [id |-> "TOY-2025-RAV-XLE-HYB-003", make |-> "Toyota", model |-> "RAV4", trim |-> "XLE Hybrid",
      type |-> "SUV", category |-> "Compact", fuelType |-> "Hybrid", electrified |-> TRUE, drivetrain |-> "AWD", msrp |-> 36000, mpg |-> 40, horsepower |-> 219,
      colors |-> << Color("Blueprint", "BLU", "rav4-blueprint.jpg"),
                    Color("Lunar Rock", "LUN", "rav4-lunar-rock.jpg") >>],
     [id |-> "HON-2025-ACC-HYB-002", make |-> "Honda", model |-> "Accord", trim |-> "Hybrid",
      type |-> "Sedan", category |-> "Midsize", fuelType |-> "Hybrid", electrified |-> TRUE, drivetrain |-> "FWD", msrp |-> 32000, mpg |-> 48, horsepower |-> 204,
      colors |-> << Color("Platinum White Pearl", "PWP", "accord-platinum-white.jpg"),
                    Color("Still Night Pearl", "SNP", "accord-still-night.jpg"),
                    Color("Lunar Silver Metallic", "LSM", "accord-lunar-silver.jpg") >>],
     [id |-> "TOY-2025-COR-SE-HYB-004", make |-> "Toyota", model |-> "Corolla", trim |-> "SE Hybrid",
      type |-> "Sedan", category |-> "Compact", fuelType |-> "Hybrid", electrified |-> TRUE, drivetrain |-> "FWD", msrp |-> 26000, mpg |-> 50, horsepower |-> 138,
      colors |-> << Color("Ruby Flare Pearl", "RFP", "corolla-ruby-flare.jpg") >>],
     [id |-> "TOY-2025-HIG-XLE-005", make |-> "Toyota", model |-> "Highlander", trim |-> "XLE",
      type |-> "SUV", category |-> "Midsize", fuelType |-> "Gasoline", electrified |-> FALSE, drivetrain |-> "AWD", msrp |-> 42000, mpg |-> 25, horsepower |-> 265,
      colors |-> << Color("Wind Chill Pearl", "WCP", "highlander-wind-chill.jpg") >>],
     [id |-> "TOY-2025-PRI-LE-006", make |-> "Toyota", model |-> "Prius", trim |-> "LE",
      type |-> "Sedan", category |-> "Compact", fuelType |-> "Hybrid", electrified |-> TRUE, drivetrain |-> "FWD", msrp |-> 28000, mpg |-> 57, horsepower |-> 194,
      colors |-> << Color("Supersonic Red", "SSR", "prius-supersonic-red.jpg") >>] >>

\* the least index of a non-empty set of indices (the first hit of a loop)
First(indices) == CHOOSE i \in indices : \A j \in indices : i <= j

(***************************************************************************)
(* extractColor.  The synonym tables are walked in insertion order, color  *)
(* by color and synonym by synonym; the first synonym the text includes    *)
(* decides.                                                                *)
(***************************************************************************)
GrayWordsTs == <<"gray", "grey", "lunar", "meteoroid", "polymetal", "charcoal">>

COLOR_SYNONYMS ==
  << [color |-> "white", name |-> "White", code |-> "WHI", synonyms |-> <<"white", "pearl", "ice", "snow", "wht", "wind chill", "platinum">>],
     [color |-> "black", name |-> "Black", code |-> "BLA", synonyms |-> <<"black", "midnight", "jet", "onyx", "blk", "obsidian">>],
     [color |-> "red", name |-> "Red", code |-> "RED", synonyms |-> <<"red", "ruby", "flare", "supersonic", "soul red", "radiant", "crimson">>],
     [color |-> "blue", name |-> "Blue", code |-> "BLU", synonyms |-> <<"blue", "blueprint", "still night", "navy", "azure", "cobalt">>],
     [color |-> "silver", name |-> "Silver", code |-> "SIL", synonyms |-> <<"silver", "celestial", "metallic", "slv", "chrome">>],
     [color |-> "gray", name |-> "Gray", code |-> "GRA", synonyms |-> GrayWordsTs],
     [color |-> "grey", name |-> "Grey", code |-> "GRE", synonyms |-> GrayWordsTs] >>

GrayWordsJs == <<"gray", "grey", "lunar", "meteoroid", "polymetal", "charcoal", "graphite">>

COLOR_MAP ==
  << [color |-> "white", name |-> "white", code |-> "WHI", synonyms |-> <<"white", "pearl", "ice", "snow", "wht", "wht", "wind chill", "platinum">>],
     [color |-> "black", name |-> "black", code |-> "BLA", synonyms |-> <<"black", "midnight", "jet", "onyx", "blk", "obsidian">>],
     [color |-> "red", name |-> "red", code |-> "RED", synonyms |-> <<"red", "ruby", "flare", "supersonic", "soul red", "radiant", "crimson", "scarlet">>],
     [color |-> "blue", name |-> "blue", code |-> "BLU", synonyms |-> <<"blue", "blueprint", "still night", "navy", "azure", "cobalt">>],
     [color |-> "silver", name |-> "silver", code |-> "SIL", synonyms |-> <<"silver", "celestial", "metallic", "slv", "chrome", "platinum">>],
     [color |-> "gray", name |-> "gray", code |-> "GRA", synonyms |-> GrayWordsJs],
     [color |-> "grey", name |-> "grey", code |-> "GRE", synonyms |-> GrayWordsJs] >>

\* the first (color, synonym) of a table whose synonym the text includes:
\* <<i, j>>, or None
FirstSynonym(lowerText, table) ==
  LET hits == { i \in 1 .. Len(table) : \E j \in 1 .. Len(table[i].synonyms) : includes(lowerText, S(table[i].synonyms[j])) }
  IN  IF hits = {} THEN None
      ELSE LET i == First(hits)
           IN  <<i, First({ j \in 1 .. Len(table[i].synonyms) : includes(lowerText, S(table[i].synonyms[j])) })>>

\* c.name.toLowerCase().includes(synonym) ||
\* c.code.toLowerCase() === color.toUpperCase().substring(0, 3)
ColorMatchesTs(c, entry, synonym) ==
  \/ includes(toLowerCase(S(c.name)), S(synonym))
  \/ toLowerCase(S(c.code)) = S(entry.code)

\* services/nlu extractColor(text, vehicle?): vehicle is None or <<v>>
extractColorTs(t, vehicle) ==
  LET lowerText == toLowerCase(t)
      hit == FirstSynonym(lowerText, COLOR_SYNONYMS)
  IN  IF hit = None THEN None
      ELSE LET entry == COLOR_SYNONYMS[hit[1]]
               synonym == entry.synonyms[hit[2]]
               colors == IF vehicle = None THEN << >> ELSE vehicle[1].colors
               match == { k \in 1 .. Len(colors) : ColorMatchesTs(colors[k], entry, synonym) }
           IN  IF match # {} THEN Some(colors[First(match)])
               ELSE Some(Color(entry.name, entry.code, ""))

\* the first word of a color name: colorName.split(' ')[0]
FirstWord(t) ==
  LET spaces == { i \in 1 .. Len(t) : t[i] = " " }
  IN  IF spaces = {} THEN t ELSE SubSeq(t, 1, First(spaces) - 1)

\* colorName.includes(variation) || variation.includes(colorName.split(' ')[0])
ColorMatchesJs(c, variation) ==
  \/ includes(toLowerCase(S(c.name)), S(variation))
  \/ includes(S(variation), FirstWord(toLowerCase(S(c.name))))

\* utils/nlu.js extractColor(text): every vehicle of the catalog is searched
extractColorJs(t) ==
  LET lowerText == toLowerCase(t)
      hit == FirstSynonym(lowerText, COLOR_MAP)
  IN  IF hit = None THEN None
      ELSE LET entry == COLOR_MAP[hit[1]]
               variation == entry.synonyms[hit[2]]
               match == { <<v, k>> \in (1 .. Len(vehiclesData)) \X (1 .. 3) :
                            /\ k <= Len(vehiclesData[v].colors)
                            /\ ColorMatchesJs(vehiclesData[v].colors[k], variation) }
           IN  IF match # {}
               THEN LET first == CHOOSE x \in match : \A y \in match : x[1] < y[1] \/ (x[1] = y[1] /\ x[2] <= y[2])
                    IN  Some(vehiclesData[first[1]].colors[first[2]])
               ELSE Some(Color(entry.name, entry.code, ""))

(***************************************************************************)
(* fuzzyMatchModel (utils/nlu.js): direct match on make + model or model,  *)
(* then the model aliases, then the make aliases.  The result is None or   *)
(* <<vehicle>>.                                                            *)
(***************************************************************************)
MODEL_ALIASES ==
  << [key |-> "camry", aliases |-> <<"camry", "camery", "camery">>],
     [key |-> "rav4", aliases |-> <<"rav4", "rav 4", "rav-4", "rav">>],
     [key |-> "corolla", aliases |-> <<"corolla", "corola", "corala">>],
     [key |-> "accord", aliases |-> <<"accord", "acord">>],
     [key |-> "mazda3", aliases |-> <<"mazda3", "mazda 3", "mazda-3", "m3">>],
     [key |-> "prius", aliases |-> <<"prius", "prious">>],
     [key |-> "highlander", aliases |-> <<"highlander", "highland">>],
     [key |-> "4runner", aliases |-> <<"4runner", "4 runner", "four runner">>],
     [key |-> "tacoma", aliases |-> <<"tacoma", "tocoma">>],
     [key |-> "sequoia", aliases |-> <<"sequoia", "sequoya">>] >>

MAKE_ALIASES ==
  << [key |-> "toyota", name |-> "Toyota", aliases |-> <<"toyota", "toy", "toyo">>],
     [key |-> "honda", name |-> "Honda", aliases |-> <<"honda", "hond">>],
     [key |-> "mazda", name |-> "Mazda", aliases |-> <<"mazda", "maz">>],
     [key |-> "ford", name |-> "Ford", aliases |-> <<"ford", "frd">>],
     [key |-> "nissan", name |-> "Nissan", aliases |-> <<"nissan", "nisan">>] >>

\* the entries of an alias table one of whose aliases the text includes
AliasHits(lowerText, table) ==
  { i \in 1 .. Len(table) : \E j \in 1 .. Len(table[i].aliases) : includes(lowerText, S(table[i].aliases[j])) }

\* the vehicle an alias loop returns: the first entry (in table order) one
\* of whose aliases the text includes and that selects some vehicle, and
\* the first vehicle it selects
ModelIncludesKey(v, entry) == includes(toLowerCase(S(v.model)), S(entry.key))

MakeIsKey(v, entry) == toLowerCase(S(v.make)) = S(entry.key)

\* the vehicles an alias entry selects: by model for MODEL_ALIASES, by
\* make for MAKE_ALIASES
Selects(entry, byModel) ==
  { v \in 1 .. Len(vehiclesData) : IF byModel THEN ModelIncludesKey(vehiclesData[v], entry) ELSE MakeIsKey(vehiclesData[v], entry) }

ByAlias(lowerText, table, byModel) ==
  LET entries == { i \in AliasHits(lowerText, table) : Selects(table[i], byModel) # {} }
  IN  IF entries = {} THEN None
      ELSE Some(vehiclesData[First(Selects(table[First(entries)], byModel))])

fuzzyMatchModel(t) ==
  LET lowerText == trim(toLowerCase(t))
      direct == { v \in 1 .. Len(vehiclesData) :
                    \/ includes(lowerText, toLowerCase(S(vehiclesData[v].make) \o S(" ") \o S(vehiclesData[v].model)))
                    \/ includes(lowerText, toLowerCase(S(vehiclesData[v].model))) }
      byModel == ByAlias(lowerText, MODEL_ALIASES, TRUE)
  IN  IF direct # {} THEN Some(vehiclesData[First(direct)])
      ELSE IF byModel # None THEN byModel
      ELSE ByAlias(lowerText, MAKE_ALIASES, FALSE)

(***************************************************************************)
(* The filter extractors: extractEntities (services/nlu) and               *)
(* extractFilters (utils/nlu.js).                                          *)
(***************************************************************************)
IsWordChar(c) ==
  c \in {"a", "b", "c", "d", "e", "f", "g", "h", "i", "j", "k", "l", "m", "n", "o", "p", "q", "r", "s", "t", "u", "v", "w", "x", "y", "z", "_"} \/ IsDigit(c)

\* /\bword\b/ for a word made of word characters
TestWord(t, w) ==
  \E i \in 1 .. Len(t) :
     /\ StartsAt(t, w, i)
     /\ i = 1 \/ ~IsWordChar(t[i - 1])
     /\ i + Len(w) > Len(t) \/ ~IsWordChar(t[i + Len(w)])

\* the end of the digit run that starts at index i
RECURSIVE SkipDigits(_, _)
SkipDigits(t, i) == IF DigitAt(t, i) THEN SkipDigits(t, i + 1) ELSE i

\* lowerText.match(/(\d+)\s*mpg/i): parseInt of the group, or None
MpgMatch(t) ==
  LET at == { i \in 1 .. Len(t) : DigitAt(t, i) /\ StartsAt(t, S("mpg"), SkipSpaces(t, SkipDigits(t, i))) }
  IN  IF at = {} THEN None ELSE Some(parseIntFrom(t, First(at), 0))

TypeFilter(lowerText) ==
  IF TestAny(lowerText, SS({"suv", "sport utility"})) THEN Some("SUV")
  ELSE IF includes(lowerText, S("sedan")) THEN Some("Sedan")
  ELSE IF TestAny(lowerText, SS({"truck", "pickup"})) THEN Some("Truck")
  ELSE None

FuelTypeFilter(lowerText, gasWords) ==
  IF includes(lowerText, S("hybrid"))
  THEN IF TestAny(lowerText, SS({"plug-in", "plugin", "phev"})) THEN Some("Plug-in Hybrid") ELSE Some("Hybrid")
  ELSE IF TestAny(lowerText, SS({"electric", "ev", "battery"})) THEN Some("Electric")
  ELSE IF TestAny(lowerText, gasWords) THEN Some("Gasoline")
  ELSE None

makes == <<"toyota", "honda", "mazda", "ford", "nissan">>

\* the make of the first list entry the text includes, capitalised (makes
\* and MAKE_ALIASES list the same manufacturers in the same order)
MakeFilterTs(lowerText) ==
  LET hits == { i \in 1 .. Len(makes) : includes(lowerText, S(makes[i])) }
  IN  IF hits = {} THEN None ELSE Some(MAKE_ALIASES[First(hits)].name)

\* the canonical colors whose synonyms the text includes, in table order
ColorsNamed(lowerText) ==
  LET hit(i) == \E j \in 1 .. Len(COLOR_SYNONYMS[i].synonyms) : includes(lowerText, S(COLOR_SYNONYMS[i].synonyms[j]))
      pick[i \in 0 .. Len(COLOR_SYNONYMS)] ==
        IF i = 0 THEN << >>
        ELSE IF hit(i) THEN Append(pick[i - 1], COLOR_SYNONYMS[i].color) ELSE pick[i - 1]
  IN  pick[Len(COLOR_SYNONYMS)]

\* a bound that is set and not 0 (priceRange.min || priceRange.max)
Truthy(opt) == opt # None /\ opt # Some(0)

\* services/nlu extractEntities; vehicles is what vehicleFuse.search
\* returned for the text (the ids of at most 5 vehicles)
extractEntities(t, vehicles) ==
  LET lowerText == toLowerCase(t)
      priceRange == extractPriceRangeTs(t)
      mpgMatch == MpgMatch(lowerText)
  IN  [vehicles |-> vehicles,
       colors |-> ColorsNamed(lowerText),
       priceRange |-> IF Truthy(priceRange.min) \/ Truthy(priceRange.max) THEN Some(priceRange) ELSE None,
       filters |->
         [type |-> TypeFilter(lowerText),
          drivetrain |-> IF TestWord(lowerText, S("awd")) THEN Some("AWD")
                         ELSE IF TestWord(lowerText, S("4wd")) THEN Some("4WD")
                         ELSE IF TestWord(lowerText, S("fwd")) THEN Some("FWD")
                         ELSE None,
          fuelType |-> FuelTypeFilter(lowerText, SS({"gas", "gasoline"})),
          make |-> MakeFilterTs(lowerText),
          mpg |-> IF mpgMatch # None THEN mpgMatch
                  ELSE IF TestAny(lowerText, SS({"efficient", "good gas"})) THEN Some(35)
                  ELSE None]]

\* utils/nlu.js: every make whose alias the text includes assigns
\* filters.make in turn; the last one stays
MakeFilterJs(lowerText) ==
  LET hits == AliasHits(lowerText, MAKE_ALIASES)
  IN  IF hits = {} THEN None
      ELSE Some(MAKE_ALIASES[CHOOSE i \in hits : \A j \in hits : j <= i].name)

CategoryFilter(lowerText) ==
  IF TestAny(lowerText, SS({"suv", "sport utility"}))
  THEN IF TestAny(lowerText, SS({"full-size", "full size"})) THEN Some("Full-Size")
       ELSE IF TestAny(lowerText, SS({"midsize", "mid-size"})) THEN Some("Midsize")
       ELSE IF includes(lowerText, S("compact")) THEN Some("Compact")
       ELSE None
  ELSE IF includes(lowerText, S("sedan")) \/ TestAny(lowerText, SS({"truck", "pickup"})) THEN None
  ELSE IF includes(lowerText, S("compact")) THEN Some("Compact")
  ELSE None

extractFilters(t) ==
  LET lowerText == toLowerCase(t)
      mpgMatch == MpgMatch(lowerText)
      modelMatch == fuzzyMatchModel(t)
      fuelType == FuelTypeFilter(lowerText, SS({"gas", "gasoline", "petrol"}))
  IN  [type |-> TypeFilter(lowerText),
       category |-> CategoryFilter(lowerText),
       drivetrain |-> IF TestWord(lowerText, S("awd")) \/ TestAny(lowerText, SS({"all-wheel drive", "all wheel"})) THEN Some("AWD")
                      ELSE IF TestWord(lowerText, S("4wd")) \/ TestAny(lowerText, SS({"four-wheel drive", "4 wheel"})) THEN Some("4WD")
                      ELSE IF TestWord(lowerText, S("fwd")) \/ includes(lowerText, S("front-wheel drive")) THEN Some("FWD")
                      ELSE None,
       fuelType |-> fuelType,
       electrified |-> IF fuelType = None THEN None ELSE Some(fuelType # Some("Gasoline")),
       priceRange |-> extractPriceRangeJs(t),
       mpg |-> IF mpgMatch # None THEN mpgMatch
               ELSE IF TestAny(lowerText, SS({"efficient", "good gas mileage", "fuel efficient"})) THEN Some(35)
               ELSE None,
       color |-> extractColorJs(t),
       make |-> IF modelMatch # None THEN Some(modelMatch[1].make) ELSE MakeFilterJs(lowerText),
       model |-> IF modelMatch # None THEN Some(modelMatch[1].model) ELSE None]

(***************************************************************************)
(* parseComparison.  text.split(/\s+vs\.?\s+|versus|compared to|compare/i) *)
(* cuts the text at every separator match; only parts[0] and parts[1] are  *)
(* read.                                                                   *)
(***************************************************************************)
\* the end (index after the last character) of the separator match that
\* starts at index i of the lowercase text, 0 when none starts there
SeparatorEnd(lt, i) ==
  LET vs == SkipSpaces(lt, i)
      dot == IF StartsAt(lt, S("."), vs + 2) THEN vs + 3 ELSE vs + 2
  IN  IF IsSpace(lt[i]) /\ StartsAt(lt, S("vs"), vs) /\ dot <= Len(lt) /\ IsSpace(lt[dot])
      THEN SkipSpaces(lt, dot)
      ELSE IF StartsAt(lt, S("versus"), i) THEN i + 6
      ELSE IF StartsAt(lt, S("compared to"), i) THEN i + 11
      ELSE IF StartsAt(lt, S("compare"), i) THEN i + 7
      ELSE 0

\* the start of the first separator match at or after index from,
\* Len + 1 when there is none
NextSeparator(lt, from) ==
  LET at == { i \in from .. Len(lt) : SeparatorEnd(lt, i) > 0 }
  IN  IF at = {} THEN Len(lt) + 1 ELSE First(at)

\* parts[0] and parts[1], trimmed; None when the split gives one part
SplitParts_SecondFromStart(t) ==
  LET lt == toLowerCase(t)
      first == NextSeparator(lt, 1)
      after == SeparatorEnd(lt, first)
  IN  IF first > Len(lt) THEN None
      ELSE Some(<<trim(SubSeq(t, 1, first - 1)),
                  trim(SubSeq(t, 1, NextSeparator(lt, after) - 1))>>)

SplitParts(t) ==
  LET lt == toLowerCase(t)
      first == NextSeparator(lt, 1)
      after == SeparatorEnd(lt, first)
  IN  IF first > Len(lt) THEN None
      ELSE Some(<<trim(SubSeq(t, 1, first - 1)),
                  trim(SubSeq(t, after, NextSeparator(lt, after) - 1))>>)

\* one subject of a comparison: absent when no vehicle was found
Subject(vehicle, color) ==
  IF vehicle = None THEN None ELSE Some([vehicle |-> vehicle[1], color |-> color])

\* services/nlu parseComparison; results1 and results2 are what
\* vehicleFuse.search(part, {limit: 1}) returned for the two parts
parseComparisonTs_ColorFromWholeText(t, results1, results2) ==
  LET parts == SplitParts(t)
  IN  IF parts = None THEN [vehicle1 |-> None, vehicle2 |-> None]
      ELSE [vehicle1 |-> Subject(results1, extractColorTs(t, results1)),
            vehicle2 |-> Subject(results2, extractColorTs(t, results2))]

parseComparisonTs(t, results1, results2) ==
  LET parts == SplitParts(t)
  IN  IF parts = None THEN [vehicle1 |-> None, vehicle2 |-> None]
      ELSE [vehicle1 |-> Subject(results1, extractColorTs(parts[1][1], results1)),
            vehicle2 |-> Subject(results2, extractColorTs(parts[1][2], results2))]

\* utils/nlu.js parseComparison: null (None) when the split gives one part
parseComparisonJs(t) ==
  LET parts == SplitParts(t)
  IN  IF parts = None THEN None
      ELSE Some([vehicle1 |-> Subject(fuzzyMatchModel(parts[1][1]), extractColorJs(parts[1][1])),
                 vehicle2 |-> Subject(fuzzyMatchModel(parts[1][2]), extractColorJs(parts[1][2]))])

(***************************************************************************)
(* parseQuery and the request handlers that use it.  A response is the     *)
(* status and the JSON body; the text a completion of the OpenAI API       *)
(* returns is not part of the model.                                       *)
(***************************************************************************)
\* the result of the services/nlu parseQuery for an intent and entities
\* variant: a named color counts as much as a vehicle
NluResult_ColorAsVehicle(intent, entities) ==
  LET confidence == RAdd(RAdd(RAdd(Rat(5, 10),
                      IF Len(entities.vehicles) > 0 THEN Rat(3, 10) ELSE RInt(0)),
                      IF Len(entities.colors) > 0 THEN Rat(3, 10) ELSE RInt(0)),
                      IF entities.priceRange # None THEN Rat(1, 10) ELSE RInt(0))
  IN  [intent |-> intent,
       entities |-> entities,
       confidence |-> IF RLt(confidence, RInt(1)) THEN confidence ELSE RInt(1)]

NluResult(intent, entities) ==
  LET confidence == RAdd(RAdd(RAdd(Rat(5, 10),
                      IF Len(entities.vehicles) > 0 THEN Rat(3, 10) ELSE RInt(0)),
                      IF Len(entities.colors) > 0 THEN Rat(1, 10) ELSE RInt(0)),
                      IF entities.priceRange # None THEN Rat(1, 10) ELSE RInt(0))
  IN  [intent |-> intent,
       entities |-> entities,
       confidence |-> IF RLt(confidence, RInt(1)) THEN confidence ELSE RInt(1)]

\* services/nlu parseQuery; vehicles is what vehicleFuse.search returned
parseQueryTs(t, vehicles) == NluResult(detectIntentTs(t), extractEntities(t, vehicles))

\* the result of the utils/nlu.js parseQuery for an intent
ParsedJs(t, intent) ==
  [intent |-> intent,
   filters |-> extractFilters(t),
   comparison |-> IF intent = "compare" THEN parseComparisonJs(t) ELSE None,
   originalText |-> t]

\* utils/nlu.js parseQuery
parseQueryJs(t) == ParsedJs(t, detectIntentJs(t))

Ids(vehicles) == [k \in 1 .. Len(vehicles) |-> vehicles[k].id]

\* slice(0, 5)
Slice5(list) == SubSeq(list, 1, IF Len(list) < 5 THEN Len(list) ELSE 5)

\* the vehicles the chat handler of the TypeScript server keeps
MatchingVehiclesTs(entities) ==
  IF Len(entities.vehicles) > 0
  THEN SelectSeq(vehiclesData, LAMBDA v : \E k \in 1 .. Len(entities.vehicles) : entities.vehicles[k] = v.id)
  ELSE SelectSeq(vehiclesData, LAMBDA v :
         /\ entities.filters.type # None => v.type = entities.filters.type[1]
         /\ entities.filters.drivetrain # None => v.drivetrain = entities.filters.drivetrain[1]
         /\ entities.filters.fuelType # None => v.fuelType = entities.filters.fuelType[1]
         /\ entities.filters.make # None => v.make = entities.filters.make[1]
         /\ Truthy(entities.filters.mpg) => v.mpg >= entities.filters.mpg[1]
         /\ (entities.priceRange # None /\ Truthy(entities.priceRange[1].max)) => v.msrp <= entities.priceRange[1].max[1]
         /\ (entities.priceRange # None /\ Truthy(entities.priceRange[1].min)) => v.msrp >= entities.priceRange[1].min[1])

\* the response of the TypeScript chat handler for an intent and the
\* vehicles kept
ChatResponseTs(intent, matchingVehicles) ==
  LET isComparison == intent = "compare"
      isSearch == Len(matchingVehicles) > 0 /\ intent = "search"
  IN  [type |-> "chat", status |-> 200,
       action |-> Some(IF isComparison THEN "compare" ELSE IF isSearch THEN "search" ELSE "chat"),
       vehicles |-> IF isSearch THEN Some(Ids(Slice5(matchingVehicles))) ELSE None,
       structuredData |-> IF isComparison /\ Len(matchingVehicles) >= 2 THEN Some("comparison")
                          ELSE IF isSearch THEN Some("vehicle_list")
                          ELSE None,
       error |-> FALSE]

ChatAnswerTs(nluResult) == ChatResponseTs(nluResult.intent, MatchingVehiclesTs(nluResult.entities))

\* POST /api/chat of the TypeScript server
ChatTs(message, vehicles) ==
  IF trim(message) = << >>
  THEN [type |-> "chat", status |-> 400, action |-> None, vehicles |-> None, structuredData |-> None, error |-> TRUE]
  ELSE ChatAnswerTs(parseQueryTs(message, vehicles))

\* the vehicles the chat handler of index.enhanced.js keeps
MatchingVehiclesJs(filters) ==
  SelectSeq(vehiclesData, LAMBDA v :
    /\ filters.type # None => v.type = filters.type[1]
    /\ filters.drivetrain # None => v.drivetrain = filters.drivetrain[1]
    /\ filters.fuelType # None => v.fuelType = filters.fuelType[1]
    /\ Truthy(filters.priceRange.max) => v.msrp <= filters.priceRange.max[1]
    /\ filters.make # None => v.make = filters.make[1]
    /\ filters.model # None => includes(toLowerCase(S(v.model)), toLowerCase(S(filters.model[1]))))

\* the response of the chat handler of index.enhanced.js; apiKey:
\* OPENAI_API_KEY is set, completes: the completion request returned
ChatResponseJs(intent, matchingVehicles, apiKey, completes) ==
  LET isComparisonRequest == intent = "compare"
      isSearchRequest == Len(matchingVehicles) > 0 /\ intent = "search"
  IN  IF ~apiKey
      THEN IF isSearchRequest
           THEN [type |-> "chat", status |-> 200, action |-> Some("search"), vehicles |-> Some(Ids(Slice5(matchingVehicles))), error |-> FALSE]
           ELSE [type |-> "chat", status |-> 200, action |-> None, vehicles |-> None, error |-> TRUE]
      ELSE IF ~completes
      THEN [type |-> "chat", status |-> 500, action |-> None, vehicles |-> None, error |-> TRUE]
      ELSE [type |-> "chat", status |-> 200,
            action |-> Some(IF isComparisonRequest THEN "compare" ELSE IF isSearchRequest THEN "search" ELSE "chat"),
            vehicles |-> IF isSearchRequest THEN Some(Ids(Slice5(matchingVehicles))) ELSE None,
            error |-> FALSE]

ChatAnswerJs(parsed, apiKey, completes) ==
  ChatResponseJs(parsed.intent, MatchingVehiclesJs(parsed.filters), apiKey, completes)

\* POST /api/chat of index.enhanced.js
ChatJs(message, apiKey, completes) == ChatAnswerJs(parseQueryJs(message), apiKey, completes)

\* the vehicles POST /api/vehicles/search of index.enhanced.js keeps
SearchMatching(filters) ==
  SelectSeq(vehiclesData, LAMBDA v :
    /\ filters.type # None => v.type = filters.type[1]
    /\ filters.category # None => v.category = filters.category[1]
    /\ filters.drivetrain # None => v.drivetrain = filters.drivetrain[1]
    /\ filters.fuelType # None => v.fuelType = filters.fuelType[1]
    /\ filters.electrified # None => v.electrified = filters.electrified[1]
    /\ Truthy(filters.priceRange.min) => v.msrp >= filters.priceRange.min[1]
    /\ Truthy(filters.priceRange.max) => v.msrp <= filters.priceRange.max[1]
    /\ Truthy(filters.mpg) => v.mpg >= filters.mpg[1]
    /\ filters.make # None => v.make = filters.make[1]
    /\ filters.model # None => includes(toLowerCase(S(v.model)), toLowerCase(S(filters.model[1]))))

\* res.json({vehicles: matching, filters, count, intent})
SearchResponse(intent, filters, matching) ==
  [type |-> "search", status |-> 200, vehicles |-> Ids(matching), filters |-> Some(filters),
   count |-> Len(matching), intent |-> Some(intent)]

SearchAnswer(parsed) == SearchResponse(parsed.intent, parsed.filters, SearchMatching(parsed.filters))

\* POST /api/vehicles/search of index.enhanced.js; without a query the
\* whole catalog is returned
Search(q) ==
  IF q = None
  THEN [type |-> "search", status |-> 200, vehicles |-> Ids(vehiclesData), filters |-> None,
        count |-> Len(vehiclesData), intent |-> None]
  ELSE SearchAnswer(parseQueryJs(q[1]))

\* vehiclesData.find(v => v.id === id)
FindById(id) ==
  LET at == { v \in 1 .. Len(vehiclesData) : vehiclesData[v].id = id }
  IN  IF at = {} THEN None ELSE Some(vehiclesData[First(at)])

\* v.colors.find(c => c.name includes color || c.code === color) || v.colors[0]
FindColor(colors, color) ==
  LET found == { k \in 1 .. Len(colors) :
                   \/ includes(toLowerCase(S(colors[k].name)), color)
                   \/ toLowerCase(S(colors[k].code)) = color }
  IN  IF found # {} THEN Some(colors[First(found)])
      ELSE IF Len(colors) > 0 THEN Some(colors[1])
      ELSE None

\* the color of a compared vehicle: the one asked for by name or code
\* (else the first one), else the one the query gave, else the first one
SelectColor(colors, color, selectedColor) ==
  IF color # None THEN FindColor(colors, toLowerCase(S(color[1])))
  ELSE IF selectedColor # None THEN selectedColor
  ELSE IF Len(colors) > 0 THEN Some(colors[1])
  ELSE None

\* a vehicle of the comparison and its color; parsed is the subject the
\* query gave, id and color are the fields of the request
Selected(vehicle, parsed, color) ==
  IF vehicle = None THEN None
  ELSE Some([vehicle |-> vehicle[1],
             selectedColor |-> SelectColor(vehicle[1].colors, color, IF parsed # None THEN parsed[1].color ELSE None)])

Resolve_QueryOnly(parsed, id, color) ==
  Selected(IF parsed # None THEN Some(parsed[1].vehicle) ELSE None, parsed, color)

Resolve(parsed, id, color) ==
  Selected(IF parsed # None THEN Some(parsed[1].vehicle) ELSE IF id # None THEN FindById(id[1]) ELSE None,
           parsed, color)

calculateFinancing(price) ==
  LET subscription == MathRound(RAdd(RDivInt(RMul(RInt(price), Rat(6, 10)), 36), RInt(150))).n
  IN  [buy |-> [monthly |-> MathRound(RDivInt(RMul(RInt(price), Rat(8, 10)), 60)).n,
                total |-> price,
                interest |-> MathRound(RMul(RInt(price), Rat(15, 100))).n],
       lease |-> [monthly |-> MathRound(RDivInt(RMul(RInt(price), Rat(45, 100)), 36)).n,
                  total |-> MathRound(RMul(RInt(price), Rat(45, 100))).n,
                  residual |-> MathRound(RMul(RInt(price), Rat(55, 100))).n],
       subscription |-> [monthly |-> subscription, total |-> subscription * 36]]

\* a vehicle of the comparison payload
Compared(vehicle, selectedColor) ==
  [vehicle |-> vehicle,
   selectedColor |-> selectedColor,
   imageUrl |-> IF selectedColor # None /\ selectedColor[1].imageUrl # "" THEN selectedColor[1].imageUrl
                ELSE vehicle.colors[1].imageUrl]

Similarities(v1, v2) ==
  SelectSeq(<<IF v1.type = v2.type THEN "Same vehicle type" ELSE "",
              IF v1.drivetrain = v2.drivetrain THEN "Same drivetrain" ELSE "",
              IF v1.fuelType = v2.fuelType THEN "Same fuel type" ELSE "",
              IF v1.msrp - v2.msrp < 5000 /\ v2.msrp - v1.msrp < 5000 THEN "Similar price range" ELSE "">>,
            LAMBDA w : w # "")

\* the comparison payload of two vehicles
Comparison(v1, selectedColor1, v2, selectedColor2) ==
  IF Len(v1.colors) = 0 \/ Len(v2.colors) = 0
  THEN [type |-> "compare", status |-> 500]
  ELSE [type |-> "compare", status |-> 200,
        vehicle1 |-> Compared(v1, selectedColor1),
        vehicle2 |-> Compared(v2, selectedColor2),
        differences |-> [price |-> v2.msrp - v1.msrp, mpg |-> v2.mpg - v1.mpg, horsepower |-> v2.horsepower - v1.horsepower],
        similarities |-> Similarities(v1, v2),
        financing |-> [vehicle1 |-> calculateFinancing(v1.msrp), vehicle2 |-> calculateFinancing(v2.msrp)]]

\* the response of the compare handler for the two subjects resolved
CompareResponse(subject1, subject2) ==
  IF subject1 = None \/ subject2 = None
  THEN [type |-> "compare", status |-> 400,
        suggestions |-> [k \in 1 .. Len(Slice5(vehiclesData)) |->
                           [id |-> vehiclesData[k].id,
                            name |-> Words(<<vehiclesData[k].make, vehiclesData[k].model, vehiclesData[k].trim>>)]]]
  ELSE Comparison(subject1[1].vehicle, subject1[1].selectedColor, subject2[1].vehicle, subject2[1].selectedColor)

CompareParsed(body, comparison) ==
  CompareResponse(Resolve(IF comparison = None THEN None ELSE comparison[1].vehicle1, body.vehicle1, body.color1),
                  Resolve(IF comparison = None THEN None ELSE comparison[1].vehicle2, body.vehicle2, body.color2))

\* POST /api/compare of index.enhanced.js; body holds the optional fields
\* query, vehicle1, vehicle2 (ids), color1 and color2 of the request
Compare(body) ==
  CompareParsed(body, IF body.query = None \/ body.query = Some(<< >>) THEN None ELSE parseComparisonJs(body.query[1]))

\* imageService getVehicleImage(vehicle, colorName); valid is what
\* validateImageUrl (a HEAD request) answers for the image of the color
getVehicleImage(vehicle, colorName, valid) ==
  LET found == IF colorName = None \/ colorName = Some("") THEN {}
               ELSE { k \in 1 .. Len(vehicle.colors) :
                        includes(toLowerCase(S(vehicle.colors[k].name)), toLowerCase(S(colorName[1]))) }
      selectedColor == IF found # {} THEN Some(vehicle.colors[First(found)])
                       ELSE IF Len(vehicle.colors) > 0 THEN Some(vehicle.colors[1])
                       ELSE None
  IN  IF selectedColor = None
      THEN [url |-> [kind |-> "placeholder", path |-> "Default"],
            color |-> Color("Default", "DEF", "placeholder"), isPlaceholder |-> TRUE]
      ELSE IF ~valid
      THEN [url |-> [kind |-> "placeholder", path |-> selectedColor[1].name],
            color |-> [selectedColor[1] EXCEPT !.imageUrl = "placeholder"], isPlaceholder |-> TRUE]
      ELSE [url |-> [kind |-> "cdn", path |-> selectedColor[1].imageUrl],
            color |-> selectedColor[1], isPlaceholder |-> FALSE]

\* the financing the TypeScript compare handler computes for a price
FinancingFor(msrp) == calculateAllScenarios([baseParams EXCEPT !.price = RInt(msrp)])

\* the comparison payload of the TypeScript compare handler
ComparisonTs(v1, img1, financing1, v2, img2, financing2) ==
  IF IsError(financing1) \/ IsError(financing2)
  THEN [type |-> "compare", status |-> 500]
  ELSE [type |-> "compare", status |-> 200,
        vehicle1 |-> [vehicle |-> v1, selectedColor |-> Some(img1.color), imageUrl |-> img1.url],
        vehicle2 |-> [vehicle |-> v2, selectedColor |-> Some(img2.color), imageUrl |-> img2.url],
        differences |-> [price |-> v2.msrp - v1.msrp, mpg |-> v2.mpg - v1.mpg, horsepower |-> v2.horsepower - v1.horsepower],
        similarities |-> Similarities(v1, v2),
        financing |-> [vehicle1 |-> financing1, vehicle2 |-> financing2]]

\* the vehicle and the color name of a subject: from the query, else the
\* vehicle by id; body.colorN replaces the color name
ResolveTs(parsed, id, color) ==
  [vehicle |-> IF parsed # None THEN Some(parsed[1].vehicle)
               ELSE IF id # None THEN FindById(id[1]) ELSE None,
   color |-> IF color # None THEN color
             ELSE IF parsed # None /\ parsed[1].color # None THEN Some(parsed[1].color[1].name)
             ELSE None]

CompareResponseTs(subject1, subject2, valid1, valid2) ==
  IF subject1.vehicle = None \/ subject2.vehicle = None
  THEN [type |-> "compare", status |-> 400,
        suggestions |-> [k \in 1 .. Len(Slice5(vehiclesData)) |->
                           [id |-> vehiclesData[k].id,
                            name |-> Words(<<vehiclesData[k].make, vehiclesData[k].model, vehiclesData[k].trim>>)]]]
  ELSE ComparisonTs(subject1.vehicle[1], getVehicleImage(subject1.vehicle[1], subject1.color, valid1), FinancingFor(subject1.vehicle[1].msrp),
                    subject2.vehicle[1], getVehicleImage(subject2.vehicle[1], subject2.color, valid2), FinancingFor(subject2.vehicle[1].msrp))

CompareParsedTs(body, comparison, valid1, valid2) ==
  CompareResponseTs(ResolveTs(comparison.vehicle1, body.vehicle1, body.color1),
                    ResolveTs(comparison.vehicle2, body.vehicle2, body.color2), valid1, valid2)

\* POST /api/compare of the TypeScript server; results1 and results2 are
\* what the two Fuse searches of parseComparison return
CompareTs(body, results1, results2, valid1, valid2) ==
  CompareParsedTs(body,
                  IF body.query = None \/ body.query = Some(<< >>) THEN [vehicle1 |-> None, vehicle2 |-> None]
                  ELSE parseComparisonTs(body.query[1], results1, results2),
                  valid1, valid2)

(***************************************************************************)
(* The queries.  query describes how a request text is composed (the form  *)
(* of a test case); text is the string the functions receive.              *)
(*   search:  [verb] [adj] [fuel] noun [under|over $X | $X-$Y]             *)
(*   compare: [compare] subject sep subject [sep subject],                 *)
(*            a subject being [color] name                                 *)
(*   literal: the sentences of the tests and of the documentation          *)
(***************************************************************************)
MaxAmountSteps == 1
MaxSubjects == 3

RECURSIVE Digits(_)
Digits(n) ==
  LET digit == <<"0", "1", "2", "3", "4", "5", "6", "7", "8", "9">>[(n % 10) + 1]
  IN  IF n < 10 THEN <<digit>> ELSE Digits(n \div 10) \o <<digit>>

\* the spellings of a dollar amount that is a multiple of 1000
Spelled(amount, style) ==
  CASE style = "digits" -> Digits(amount)
    [] style = "comma" -> Digits(amount \div 1000) \o S(",000")
    [] style = "k" -> Digits(amount \div 1000) \o S("k")
    [] style = "thousand" -> Digits(amount \div 1000) \o S("thousand")

Styles == {"digits", "comma", "k", "thousand"}

Amounts == { 25000 + 5000 * k : k \in 0 .. MaxAmountSteps }

RangeWidth == 10000

\* the words of a query, an absent part being the empty string
Present(ws) == SelectSeq(ws, LAMBDA w : w # "")

PriceClause(q) ==
  CASE q.bound = "" -> << >>
    [] q.bound = "range" -> S(" $") \o Spelled(q.amount, q.style) \o S("-$") \o Spelled(q.amount + RangeWidth, q.style)
    [] OTHER -> S(" ") \o S(q.bound) \o S(" $") \o Spelled(q.amount, q.style)

SubjectText(sub) == Words(Present(<<sub.color, sub.name>>))

RECURSIVE JoinSubjects(_, _)
JoinSubjects(subs, sep) ==
  IF Len(subs) = 1 THEN SubjectText(subs[1])
  ELSE SubjectText(subs[1]) \o S(" ") \o S(sep) \o S(" ") \o JoinSubjects(Tail(subs), sep)

Render(q) ==
  CASE q.kind = "search" -> Words(Present(<<q.verb, q.adj, q.fuel, q.noun>>)) \o PriceClause(q)
    [] q.kind = "compare" -> (IF q.lead = "" THEN << >> ELSE S(q.lead) \o S(" ")) \o JoinSubjects(q.subjects, q.sep)
    [] q.kind = "literal" -> Words(q.words)

SearchQueries ==
  { [kind |-> "search", verb |-> v, adj |-> a, fuel |-> f, noun |-> n, bound |-> "", amount |-> 0, style |-> ""] : v \in {"", "show me"}, a \in {"", "affordable", "luxury"}, f \in {"", "hybrid"}, n \in {"SUVs", "sedans", "Toyota vehicles"} }
  \cup
  { [kind |-> "search", verb |-> "", adj |-> a, fuel |-> "", noun |-> n, bound |-> b, amount |-> m, style |-> st] : a \in {"", "affordable", "luxury"}, n \in {"SUVs", "sedans", "Toyota vehicles"}, b \in {"under", "over", "range"}, m \in Amounts, st \in Styles }

Colors == {"", "blue", "silver"}
Names == {"Camry", "Accord", "Tesla"}
Separators == {"vs", "versus", "compared to"}

Subjects == { [color |-> c, name |-> n] : c \in Colors, n \in Names }

SubjectLists ==
  { <<a, b>> : a \in Subjects, b \in Subjects }
  \cup UNION { [1 .. k -> { s \in Subjects : s.color = "" }] : k \in 3 .. MaxSubjects }

CompareQueries ==
  { [kind |-> "compare", lead |-> "", sep |-> s, subjects |-> subs] : s \in Separators, subs \in SubjectLists }
  \cup { [kind |-> "compare", lead |-> "compare", sep |-> "vs", subjects |-> subs] : subs \in SubjectLists }

LiteralQueries ==
  { [kind |-> "literal", words |-> ws] : ws \in
      { <<"show", "me", "affordable", "hybrid", "SUVs">>,
        <<"compare", "Toyota", "Camry", "with", "Honda", "Accord">>,
        <<"compare", "the", "price", "of", "the", "Camry", "vs", "Accord">>,
        <<"affordable", "hybrid", "SUVs">>,
        <<"Toyota", "vehicles", "under", "$30k">>,
        <<"efficient", "sedans", "with", "AWD">>,
        <<"blue", "Camry", "vs", "silver", "Accord">>,
        <<"under", "$30k">>,
        <<"$25,000-$35,000">>,
        <<"affordable">>,
        <<"show", "me", "the", "Camry", "vs", "the", "Accord">>,
        <<"blue", "Camry", "under", "$30k">>,
        <<"Camry">> } }

Queries == SearchQueries \cup CompareQueries \cup LiteralQueries

(***************************************************************************)
(* The state machine of the natural-language layer: one request carries    *)
(* one query text and is answered by one call of one exported function or  *)
(* one handler.                                                            *)
(***************************************************************************)
NluInit ==
  /\ params = baseParams
  /\ called = "none"
  /\ result = NoResult
  /\ query \in Queries
  /\ text = Render(query)
  /\ catalog = vehiclesData
  /\ held = << >>
  /\ inflight = << >>

Answer(name, value) ==
  /\ called = "none"
  /\ called' = name
  /\ result' = value
  /\ UNCHANGED <<params, query, text, catalog, held, inflight>>

CallDetectIntentTs == Answer("detectIntentTs", [type |-> "intent", intent |-> detectIntentTs(text)])

CallDetectIntentJs == Answer("detectIntentJs", [type |-> "intent", intent |-> detectIntentJs(text)])

CallExtractPriceRangeTs ==
  /\ query.kind # "compare"
  /\ Answer("extractPriceRangeTs", [type |-> "priceRange", range |-> extractPriceRangeTs(text)])

CallExtractPriceRangeJs ==
  /\ query.kind # "compare"
  /\ Answer("extractPriceRangeJs", [type |-> "priceRange", range |-> extractPriceRangeJs(text)])

\* what vehicleFuse.search(text, {limit: 5}) may return, as ids: Fuse.js is
\* a library outside the repository, so its ranking is an input of the call
\* the searches are answered out of the Camry, the RAV4 and the Accord
FuseHits == SubSeq(vehiclesData, 1, 3)

FuseIdLists ==
  {<< >>, Ids(FuseHits)} \cup { <<FuseHits[v].id>> : v \in 1 .. Len(FuseHits) }

CallExtractEntities ==
  /\ query.kind # "compare"
  /\ \E vehicles \in FuseIdLists :
       Answer("extractEntities", [type |-> "entities", entities |-> extractEntities(text, vehicles)])

CallExtractFilters ==
  /\ query.kind # "compare"
  /\ Answer("extractFilters", [type |-> "filters", filters |-> extractFilters(text)])

\* what vehicleFuse.search(part, {limit: 1}) may return
FuseBest == {None} \cup { Some(FuseHits[v]) : v \in 1 .. Len(FuseHits) }

CallParseComparisonTs ==
  /\ query.kind # "search"
  /\ \E results1 \in FuseBest, results2 \in FuseBest :
       Answer("parseComparisonTs", [type |-> "comparison", comparison |-> parseComparisonTs(text, results1, results2)])

CallParseComparisonJs ==
  /\ query.kind # "search"
  /\ Answer("parseComparisonJs", [type |-> "comparison", comparison |-> parseComparisonJs(text)])

CallParseQueryTs ==
  /\ query.kind # "compare"
  /\ \E vehicles \in FuseIdLists : Answer("parseQueryTs", [type |-> "nlu", nlu |-> parseQueryTs(text, vehicles)])

CallChatTs ==
  /\ query.kind # "compare"
  /\ \E vehicles \in FuseIdLists :
       Answer("ChatTs", ChatTs(text, vehicles) @@ [request |-> [vehicles |-> vehicles]])

CallChatJs ==
  /\ query.kind # "compare"
  /\ \E apiKey \in BOOLEAN, completes \in BOOLEAN : Answer("ChatJs", ChatJs(text, apiKey, completes))

CallSearch ==
  /\ query.kind # "compare"
  /\ \E q \in {None, Some(text)} : Answer("Search", Search(q) @@ [request |-> [query |-> q]])

\* the bodies of the compare requests: a query alone, or (for the fixed
\* sentences) any mix of a query, vehicle ids and color names
CompareBodies ==
  IF query.kind = "compare"
  THEN { [query |-> Some(text), vehicle1 |-> None, vehicle2 |-> None, color1 |-> None, color2 |-> None] }
  ELSE { [query |-> q, vehicle1 |-> v1, vehicle2 |-> v2, color1 |-> c1, color2 |-> c2] :
           q \in {None, Some(text)},
           v1 \in {None, Some(vehiclesData[1].id), Some("NO-SUCH-ID")},
           v2 \in {None, Some(vehiclesData[2].id), Some(vehiclesData[3].id)},
           c1 \in {None, Some("silver")},
           c2 \in {None, Some("blue")} }

\* request keeps what was sent (and what the searches returned) next to
\* the response
CallCompare ==
  /\ query.kind # "search"
  /\ \E body \in CompareBodies :
       Answer("Compare", Compare(body) @@ [request |-> [body |-> body]])

\* the bodies of the compare requests to the TypeScript server
CompareBodiesTs ==
  IF query.kind = "compare"
  THEN { [query |-> Some(text), vehicle1 |-> None, vehicle2 |-> None, color1 |-> None, color2 |-> None] }
  ELSE { [query |-> q, vehicle1 |-> v1, vehicle2 |-> v2, color1 |-> c1, color2 |-> None] :
           q \in {None, Some(text)},
           v1 \in {None, Some(vehiclesData[1].id), Some("NO-SUCH-ID")},
           v2 \in {None, Some(vehiclesData[2].id)},
           c1 \in {None, Some("silver")} }

CallCompareTs ==
  /\ query.kind # "search"
  /\ \E body \in CompareBodiesTs, results1 \in {None, Some(vehiclesData[1])}, results2 \in {None, Some(vehiclesData[3])}, valid \in BOOLEAN :
       Answer("CompareTs", CompareTs(body, results1, results2, valid, TRUE)
                             @@ [request |-> [body |-> body, results1 |-> results1, results2 |-> results2]])

NluNext ==
  \/ CallDetectIntentTs
  \/ CallDetectIntentJs
  \/ CallExtractPriceRangeTs
  \/ CallExtractPriceRangeJs
  \/ CallExtractEntities
  \/ CallExtractFilters
  \/ CallParseComparisonTs
  \/ CallParseComparisonJs
  \/ CallParseQueryTs

NluSpec == NluInit /\ [][NluNext]_vars

\* the HTTP handlers built on the natural-language layer, answering the
\* same requests
HandlerNext ==
  \/ CallChatTs
  \/ CallChatJs
  \/ CallSearch
  \/ CallCompare
  \/ CallCompareTs

HandlerSpec == NluInit /\ [][HandlerNext]_vars

(***************************************************************************)
(* POST /api/calculate-payment.  A request body carries the fields of      *)
(* FinancingParams, each one possibly missing (None), and the two flags.   *)
(* Of a response the status, the type, monthlyPayment and totalCost are    *)
(* kept; a number that is NaN or infinite is serialised as null (None).    *)
(***************************************************************************)
\* the body sent for the parameters p: every field, the price alone, or
\* every field but the price
Body(p, plan, fields) ==
  [price |-> IF fields = "noPrice" THEN None ELSE Some(p.price),
   downPayment |-> IF fields = "priceOnly" THEN None ELSE Some(p.downPayment),
   apr |-> IF fields = "priceOnly" THEN None ELSE Some(p.apr),
   termMonths |-> IF fields = "priceOnly" THEN None ELSE Some(p.termMonths),
   isLease |-> fields # "priceOnly" /\ plan = "lease",
   isSubscription |-> fields # "priceOnly" /\ plan = "subscription",
   residualValue |-> IF fields = "priceOnly" \/ ~p.residualGiven THEN None ELSE Some(p.residualValue),
   tradeInValue |-> IF fields = "priceOnly" THEN None ELSE Some(p.tradeInValue),
   taxRate |-> IF fields = "priceOnly" THEN None ELSE Some(p.taxRate)]

\* a destructuring default: only a missing field takes it
OrDefault(opt, default) == IF opt = None THEN default ELSE opt[1]

\* validateFinancingParams: the FinancingParams, or the Error thrown
validateFinancingParams(body) ==
  IF body.price = None \/ RLe(OrDefault(body.price, RInt(1)), RInt(0))
  THEN ThrowError("Price must be a positive number")
  ELSE IF RLt(OrDefault(body.downPayment, RInt(0)), RInt(0))
  THEN ThrowError("Down payment must be a non-negative number")
  ELSE IF RLt(OrDefault(body.apr, Rat(55, 10)), RInt(0)) \/ RLt(RInt(100), OrDefault(body.apr, Rat(55, 10)))
  THEN ThrowError("APR must be between 0 and 100")
  ELSE IF OrDefault(body.termMonths, 60) < 12 \/ OrDefault(body.termMonths, 60) > 84
  THEN ThrowError("Term must be between 12 and 84 months")
  ELSE Params(body.price[1], OrDefault(body.downPayment, RInt(0)), OrDefault(body.apr, Rat(55, 10)),
              OrDefault(body.termMonths, 60), body.residualValue # None, OrDefault(body.residualValue, RInt(0)),
              OrDefault(body.tradeInValue, RInt(0)), OrDefault(body.taxRate, Rat(8, 100))) @@ [type |-> "params"]

\* res.json(result), or res.status(400).json(apiError) from the catch
PaymentResponseTs(calculation) ==
  IF IsError(calculation)
  THEN [type |-> "payment", status |-> 400, plan |-> None, monthlyPayment |-> None, totalCost |-> None]
  ELSE [type |-> "payment", status |-> 200, plan |-> Some(calculation.type),
        monthlyPayment |-> Some(calculation.monthlyPayment), totalCost |-> Some(calculation.totalCost)]

PaymentValidatedTs(validated, isSubscription, isLease) ==
  IF IsError(validated) THEN PaymentResponseTs(validated)
  ELSE IF isSubscription THEN PaymentResponseTs(calculateSubscription(validated))
  ELSE IF isLease THEN PaymentResponseTs(calculateLease(validated))
  ELSE PaymentResponseTs(calculatePurchase(validated))

\* POST /api/calculate-payment of the TypeScript server
PaymentTs(body) == PaymentValidatedTs(validateFinancingParams(body), body.isSubscription, body.isLease)

\* x || default for a number: undefined and 0 are both falsy
OrFalsy(opt, default) == IF opt = None \/ RIsZero(OrDefault(opt, RInt(0))) THEN default ELSE opt[1]

\* (principal * monthlyRate) / (1 - Math.pow(1 + monthlyRate, -termMonths))
\* for monthlyRate > 0 and termMonths > 0: the amortization of the
\* principal, with its sign
InlineAmortize(principal, monthlyRate, termMonths) ==
  IF RLt(principal, RInt(0)) THEN RNeg(Amortize(RNeg(principal), monthlyRate, termMonths))
  ELSE Amortize(principal, monthlyRate, termMonths)

\* the financing inlined in the plain-script servers, for a body whose
\* price, downPayment, apr and termMonths are numbers and termMonths > 0
InlineMonthly(plan, netPrice, residual, apr, termMonths) ==
  IF plan = "subscription" THEN RAdd(RDivInt(netPrice, termMonths), RInt(insurance + maintenance))
  ELSE IF plan = "lease"
  THEN RAdd(RDivInt(RSub(netPrice, residual), termMonths), RMul(RAdd(netPrice, residual), RDivInt(apr, 2400)))
  ELSE IF RIsZero(apr) THEN RDivInt(netPrice, termMonths)
  ELSE InlineAmortize(netPrice, RDivInt(RDivInt(apr, 100), 12), termMonths)

InlineResponse(plan, monthlyPayment, termMonths, downPayment, tradeInValue) ==
  [type |-> "payment", status |-> 200, plan |-> Some(plan),
   monthlyPayment |-> Some(MathRound(monthlyPayment)),
   totalCost |-> Some(MathRound(RAdd(RAdd(RMul(monthlyPayment, RInt(termMonths)), downPayment), tradeInValue)))]

InlineFinite(plan, price, downPayment, apr, termMonths, residualValue, tradeInValue, tax) ==
  InlineResponse(plan,
                 InlineMonthly(plan, RSub(RSub(RMul(price, RAdd(RInt(1), tax)), tradeInValue), downPayment),
                               OrFalsy(residualValue, MathRound(RMul(price, Rat(55, 100)))), apr, termMonths),
                 termMonths, downPayment, tradeInValue)

\* POST /api/calculate-payment of index.enhanced.js and of the fallback
\* server: no validation and nothing that throws; a missing operand makes
\* the amounts NaN, a zero term makes them infinite or NaN
PaymentJs(body) ==
  LET plan == IF body.isSubscription THEN "subscription" ELSE IF body.isLease THEN "lease" ELSE "purchase"
  IN  IF \/ body.price = None \/ body.downPayment = None \/ body.termMonths = None
         \/ (body.apr = None /\ plan # "subscription")
         \/ body.termMonths = Some(0)
      THEN [type |-> "payment", status |-> 200, plan |-> Some(plan), monthlyPayment |-> None, totalCost |-> None]
      ELSE InlineFinite(plan, body.price[1], body.downPayment[1], OrDefault(body.apr, RInt(0)), body.termMonths[1],
                        body.residualValue, OrFalsy(body.tradeInValue, RInt(0)), OrFalsy(body.taxRate, Rat(8, 100)))

\* the requests: each plan with every field, and for the parameter sets
\* of the tests also the price alone and every field but the price; the
\* term is not negative
PaymentRequests ==
  { [kind |-> "payment", plan |-> plan, fields |-> "all"] : plan \in {"purchase", "lease", "subscription"} }
  \cup { [kind |-> "payment", plan |-> "purchase", fields |-> f] : f \in {"priceOnly", "noPrice"} }

PaymentInit ==
  /\ params \in { p \in Inputs : p.termMonths >= 0 }
  /\ called = "none"
  /\ result = NoResult
  /\ query \in { q \in PaymentRequests : q.fields = "all" \/ params \in TestInputs }
  /\ text = << >>
  /\ catalog = << >>
  /\ held = << >>
  /\ inflight = << >>

CallPaymentTs == Answer("PaymentTs", PaymentTs(Body(params, query.plan, query.fields)))

CallPaymentJs == Answer("PaymentJs", PaymentJs(Body(params, query.plan, query.fields)))

PaymentNext ==
  \/ CallPaymentTs
  \/ CallPaymentJs

PaymentSpec == PaymentInit /\ [][PaymentNext]_vars

(***************************************************************************)
(* The catalog as state.  vehiclesData is read once at start-up into an    *)
(* array the handlers share; catalog is that array.  The handlers work on  *)
(* copies: [...vehiclesData], filter, slice and map build new arrays, find *)
(* returns a record that is only read, and the comparison payload is made  *)
(* of new objects {...v, selectedColor, imageUrl}.  A server answers any   *)
(* number of requests, one after the other.                                *)
(***************************************************************************)
\* variant: selectedColor and imageUrl are set on the catalog record itself
Attach_InPlace(cat, compared) ==
  [k \in 1 .. Len(cat) |->
     IF cat[k].id = compared.vehicle.id
     THEN [selectedColor |-> compared.selectedColor, imageUrl |-> compared.imageUrl] @@ cat[k]
     ELSE cat[k]]

\* the catalog after {...v, selectedColor, imageUrl} made the payload
\* vehicle compared: the spread copies the fields of the record into a new
\* object, and the two fields are set on that object
Attach(cat, compared) == cat

\* the catalog after a handler built its response
CatalogAfter(cat, response) ==
  IF response.type = "compare" /\ response.status = 200
  THEN Attach(Attach(cat, response.vehicle1), response.vehicle2)
  ELSE cat

\* the compare requests sent to a running server: the query alone, two
\* vehicle ids, or two ids with a color each
CatalogBodies ==
  { [query |-> Some(text), vehicle1 |-> None, vehicle2 |-> None, color1 |-> None, color2 |-> None],
    [query |-> None, vehicle1 |-> Some(vehiclesData[1].id), vehicle2 |-> Some(vehiclesData[2].id), color1 |-> None, color2 |-> None],
    [query |-> None, vehicle1 |-> Some(vehiclesData[1].id), vehicle2 |-> Some(vehiclesData[3].id), color1 |-> Some("silver"), color2 |-> Some("blue")] }

CatalogInit ==
  /\ params = baseParams
  /\ called = "none"
  /\ result = NoResult
  /\ query \in LiteralQueries
  /\ text = Render(query)
  /\ catalog = vehiclesData
  /\ held = << >>
  /\ inflight = << >>

Handle(name, response) ==
  /\ called' = name
  /\ result' = response
  /\ catalog' = CatalogAfter(catalog, response)
  /\ UNCHANGED <<params, query, text, held, inflight>>

HandleSearch == \E q \in {None, Some(text)} : Handle("Search", Search(q))

HandleCompare == \E body \in CatalogBodies : Handle("Compare", Compare(body))

HandleCompareTs ==
  \E body \in CatalogBodies, results1 \in {None, Some(vehiclesData[1])}, results2 \in {None, Some(vehiclesData[3])}, valid \in BOOLEAN :
    Handle("CompareTs", CompareTs(body, results1, results2, valid, TRUE))

HandleChat == \E apiKey \in BOOLEAN, completes \in BOOLEAN : Handle("ChatJs", ChatJs(text, apiKey, completes))

CatalogNext ==
  \/ HandleSearch
  \/ HandleChat
  \/ HandleCompare
  \/ HandleCompareTs

CatalogSpec == CatalogInit /\ [][CatalogNext]_vars

(***************************************************************************)
(* The clients.  Every client (App.tsx) holds a vehicle list, empty when   *)
(* it starts; it replaces the list by the vehicles of the response to its  *)
(* own GET /api/vehicles and by the vehicles of every vehicles_update      *)
(* event it receives.  The server answers GET /api/vehicles with one page  *)
(* of the filtered catalog and, before it responds, emits the same page    *)
(* to every connected socket (io.emit).  held is the list of each client,  *)
(* inflight the events on its socket (in order) and the response it waits  *)
(* for.  origin records whose request produced a message.                  *)
(***************************************************************************)
NumClients == 2
MaxInFlight == 2

Clients == 1 .. NumClients

\* GET /api/vehicles: the filters (of which type and make are kept; the
\* others narrow the list the same way), then the page
ListVehicles(cat, type, make, page, limit) ==
  LET filtered == SelectSeq(cat, LAMBDA v : (type # None => v.type = type[1]) /\ (make # None => v.make = make[1]))
      start == (page - 1) * limit
      end == start + limit
  IN  [vehicles |-> Ids(SubSeq(filtered, start + 1, IF end < Len(filtered) THEN end ELSE Len(filtered))),
       pagination |-> [page |-> page, limit |-> limit, total |-> Len(filtered),
                       pages |-> (Len(filtered) + limit - 1) \div limit]]

\* the query strings sent: none (as App.tsx does), a type, a make, and the
\* second page of a short page size
ListRequests ==
  { [type |-> None, make |-> None, page |-> 1, limit |-> 20],
    [type |-> Some("SUV"), make |-> None, page |-> 1, limit |-> 20],
    [type |-> None, make |-> Some("Honda"), page |-> 1, limit |-> 20],
    [type |-> None, make |-> None, page |-> 2, limit |-> 5] }

ClientInit ==
  /\ params = baseParams
  /\ called = "none"
  /\ result = NoResult
  /\ query = [kind |-> "none"]
  /\ text = << >>
  /\ catalog = vehiclesData
  /\ held = [c \in Clients |-> << >>]
  /\ inflight = [c \in Clients |-> [socket |-> << >>, http |-> << >>]]

\* the server handles the GET of client c: io.emit('vehicles_update', ...)
\* to every socket, then res.json(response)
GetVehicles(c, request) ==
  /\ inflight[c].http = << >>
  /\ \A d \in Clients : Len(inflight[d].socket) < MaxInFlight
  /\ called' = "GetVehicles"
  /\ result' = [type |-> "vehicles", status |-> 200, origin |-> c,
                data |-> ListVehicles(catalog, request.type, request.make, request.page, request.limit)]
  /\ inflight' = [d \in Clients |->
                    [socket |-> Append(inflight[d].socket, [type |-> "vehicle_list", origin |-> c, data |-> result'.data]),
                     http |-> IF d = c THEN <<result'>> ELSE inflight[d].http]]
  /\ UNCHANGED <<params, query, text, catalog, held>>

\* newSocket.on('vehicles_update'): setVehicles(update.data.vehicles || [])
ReceiveUpdate(c) ==
  /\ inflight[c].socket # << >>
  /\ called' = "vehicles_update"
  /\ result' = Head(inflight[c].socket)
  /\ held' = [held EXCEPT ![c] = IF result'.type = "vehicle_list" THEN result'.data.vehicles ELSE @]
  /\ inflight' = [inflight EXCEPT ![c].socket = Tail(@)]
  /\ UNCHANGED <<params, query, text, catalog>>

\* fetchVehicles: setVehicles(data.vehicles || data)
ReceiveResponse(c) ==
  /\ inflight[c].http # << >>
  /\ called' = "fetchVehicles"
  /\ result' = Head(inflight[c].http)
  /\ held' = [held EXCEPT ![c] = result'.data.vehicles]
  /\ inflight' = [inflight EXCEPT ![c].http = Tail(@)]
  /\ UNCHANGED <<params, query, text, catalog>>

ClientNext ==
  \/ \E c \in Clients, request \in ListRequests : GetVehicles(c, request)
  \/ \E c \in Clients : ReceiveUpdate(c)
  \/ \E c \in Clients : ReceiveResponse(c)

ClientSpec == ClientInit /\ [][ClientNext]_vars

(***************************************************************************)
(* C12: detectIntent applies the precedence compare > finance > filter >   *)
(* search in every variant: 'compare' whenever the text contains a compare *)
(* keyword, whatever other keywords it contains; otherwise 'finance' if it *)
(* contains a finance keyword; otherwise 'filter' if it contains a filter  *)
(* keyword; otherwise 'search'.  "compare the price of the Camry vs        *)
(* Accord" gives compare.                                                  *)
(***************************************************************************)
IntentByPrecedence(t, comparePattern, financePattern, filterPattern) ==
  IF TestAny(toLowerCase(t), comparePattern) THEN "compare"
  ELSE IF TestAny(toLowerCase(t), financePattern) THEN "finance"
  ELSE IF TestAny(toLowerCase(t), filterPattern) THEN "filter"
  ELSE "search"

C12_IntentPrecedence ==
  /\ called = "detectIntentTs"
       => result.intent = IntentByPrecedence(text, ComparePatternTs, FinancePattern, FilterPatternTs)
  /\ called = "detectIntentJs"
       => result.intent = IntentByPrecedence(text, ComparePatternJs, FinancePattern, FilterPatternJs)
  /\ ( /\ called \in {"detectIntentTs", "detectIntentJs"}
       /\ query.kind = "literal"
       /\ query.words = <<"compare", "the", "price", "of", "the", "Camry", "vs", "Accord">> )
       => result.intent = "compare"

(***************************************************************************)
(* C15: extractPriceRange returns {max: 30000} for "under $30k",           *)
(* {min: 25000, max: 35000} for "$25,000-$35,000" and {max: 30000} for     *)
(* "affordable" alone; and when a query holds both a qualitative keyword   *)
(* and an explicit numeric pattern for the same bound, that bound is the   *)
(* numeric amount of the query, not the keyword's threshold.               *)
(***************************************************************************)
PriceRangeCalls == {"extractPriceRangeTs", "extractPriceRangeJs"}

C15_PriceExamplesAndOverride ==
  called \in PriceRangeCalls =>
    /\ (query.kind = "literal" /\ query.words = <<"under", "$30k">>)
         => result.range = [min |-> None, max |-> Some(30000)]
    /\ (query.kind = "literal" /\ query.words = <<"$25,000-$35,000">>)
         => result.range = [min |-> Some(25000), max |-> Some(35000)]
    /\ (query.kind = "literal" /\ query.words = <<"affordable">>)
         => result.range = [min |-> None, max |-> Some(30000)]
    /\ (query.kind = "search" /\ query.adj = "affordable" /\ query.bound = "under")
         => result.range.max = Some(query.amount)
    /\ (query.kind = "search" /\ query.adj = "affordable" /\ query.bound = "range")
         => result.range.max = Some(query.amount + RangeWidth)
    /\ (query.kind = "search" /\ query.adj = "luxury" /\ query.bound \in {"over", "range"})
         => result.range.min = Some(query.amount)

(***************************************************************************)
(* C16: for an "under $X" or "over $X" pattern the extracted bound is the  *)
(* dollar amount X denotes, in every supported spelling of X: plain        *)
(* digits, comma-grouped digits, a 'k' suffix and a 'thousand' suffix.     *)
(***************************************************************************)
C16_BoundIsAmountDenoted ==
  (called \in PriceRangeCalls /\ query.kind = "search") =>
    /\ query.bound = "under" => result.range.max = Some(query.amount)
    /\ query.bound = "over" => result.range.min = Some(query.amount)

(***************************************************************************)
(* C14: parsing "affordable hybrid SUVs" yields fuelType = Hybrid,         *)
(* type = SUV and maximum price 30000, with make and model unconstrained;  *)
(* and the make filter is set only when the query names a supported        *)
(* manufacturer (or a catalog model of it) as a word, never because an     *)
(* alias occurs inside another word.                                       *)
(***************************************************************************)
NamesAMake(t) ==
  \/ \E i \in 1 .. Len(MAKE_ALIASES) : \E j \in 1 .. Len(MAKE_ALIASES[i].aliases) :
        TestWord(toLowerCase(t), S(MAKE_ALIASES[i].aliases[j]))
  \/ \E v \in 1 .. Len(vehiclesData) : TestWord(toLowerCase(t), toLowerCase(S(vehiclesData[v].model)))

C14_MakeOnlyWhenNamed ==
  /\ called = "extractEntities" =>
       /\ (query.kind = "literal" /\ query.words = <<"affordable", "hybrid", "SUVs">>)
            => /\ result.entities.filters.fuelType = Some("Hybrid")
               /\ result.entities.filters.type = Some("SUV")
               /\ result.entities.priceRange = Some([min |-> None, max |-> Some(30000)])
               /\ result.entities.filters.make = None
       /\ result.entities.filters.make # None => NamesAMake(text)
  /\ called = "extractFilters" =>
       /\ (query.kind = "literal" /\ query.words = <<"affordable", "hybrid", "SUVs">>)
            => /\ result.filters.fuelType = Some("Hybrid")
               /\ result.filters.type = Some("SUV")
               /\ result.filters.priceRange.max = Some(30000)
               /\ result.filters.make = None
               /\ result.filters.model = None
       /\ result.filters.make # None => NamesAMake(text)

(***************************************************************************)
(* Comparison queries.                                                     *)
(***************************************************************************)
CatalogModels == { vehiclesData[v].model : v \in 1 .. Len(vehiclesData) }

\* a comparison query "A <separator> B" with nothing in front
OneSeparator(q) == q.kind = "compare" /\ q.lead = "" /\ Len(q.subjects) = 2

\* the model a subject of the query names when the catalog has it
ExpectedModel(sub) == IF sub.name \in CatalogModels THEN Some(sub.name) ELSE None

ModelOf(subject) == IF subject = None THEN None ELSE Some(subject[1].vehicle.model)

\* C17: on a query with one separator, parseComparison resolves subject 1
\* from the text before the separator and subject 2 from the text after it,
\* each on its own: a subject that names no catalog vehicle comes back
\* absent, the other one is still resolved, and a result is returned.
C17_SplitAtSeparator ==
  OneSeparator(query) =>
    /\ called = "parseComparisonJs" =>
         /\ result.type = "comparison"
         /\ result.comparison # None
         /\ ModelOf(result.comparison[1].vehicle1) = ExpectedModel(query.subjects[1])
         /\ ModelOf(result.comparison[1].vehicle2) = ExpectedModel(query.subjects[2])
    /\ called = "parseComparisonTs" =>
         /\ result.type = "comparison"
         /\ ModelOf(result.comparison.vehicle1) \in {None} \cup { Some(m) : m \in CatalogModels }
         /\ ModelOf(result.comparison.vehicle2) \in {None} \cup { Some(m) : m \in CatalogModels }

C17_OneSubjectUnresolved ==
  /\ called = "parseComparisonJs"
  /\ OneSeparator(query)
  /\ query.subjects[1].name = "Tesla"
  /\ query.subjects[2] = [color |-> "silver", name |-> "Accord"]
  /\ result.comparison # None
  /\ result.comparison[1].vehicle1 = None
  /\ ModelOf(result.comparison[1].vehicle2) = Some("Accord")

\* a comparison query with more than one separator occurrence
ManySeparators(q) == q.kind = "compare" /\ (q.lead = "compare" \/ Len(q.subjects) > 2)

Resolvable(q) == { n \in 1 .. Len(q.subjects) : q.subjects[n].name \in CatalogModels }

\* C18: on a query with more than one separator occurrence ("A vs B vs C",
\* "compare A vs B"), parseComparison returns two non-null subjects whenever
\* at least two of the separated segments name catalog vehicles.
C18_FirstTwoResolvable ==
  (called = "parseComparisonJs" /\ ManySeparators(query) /\ Cardinality(Resolvable(query)) >= 2) =>
    /\ result.comparison # None
    /\ result.comparison[1].vehicle1 # None
    /\ result.comparison[1].vehicle2 # None

\* what the search returned for a subject of a services/nlu result
FoundFor(subject) == IF subject = None THEN None ELSE Some(subject[1].vehicle)

\* the color a subject was given is the one the query's word asks for
NamedFor(subject, word) ==
  (subject # None /\ word # "") =>
    /\ subject[1].color # None
    /\ includes(toLowerCase(S(subject[1].color[1].name)), S(word))

\* C19: in the services/nlu parseComparison, the color of each subject comes
\* from that subject's half of the query only: a half that says blue or
\* silver gives its subject that color (a variant of the vehicle named for
\* it, or the bare color), and replacing the color word of the other half
\* changes nothing in the subject.
C19_ColorFromOwnHalf ==
  (called = "parseComparisonTs" /\ OneSeparator(query)) =>
    LET c == result.comparison
    IN  /\ NamedFor(c.vehicle1, query.subjects[1].color)
        /\ NamedFor(c.vehicle2, query.subjects[2].color)
        /\ \A other \in Colors :
             /\ parseComparisonTs(Render([query EXCEPT !.subjects[2].color = other]), FoundFor(c.vehicle1), FoundFor(c.vehicle2)).vehicle1 = c.vehicle1
             /\ parseComparisonTs(Render([query EXCEPT !.subjects[1].color = other]), FoundFor(c.vehicle1), FoundFor(c.vehicle2)).vehicle2 = c.vehicle2

C19_BlueCamrySilverAccord ==
  /\ called = "parseComparisonTs"
  /\ OneSeparator(query)
  /\ query.subjects = <<[color |-> "blue", name |-> "Camry"], [color |-> "silver", name |-> "Accord"]>>
  /\ result.comparison.vehicle1 # None
  /\ result.comparison.vehicle2 # None
  /\ result.comparison.vehicle1[1].vehicle.model = "Camry"
  /\ result.comparison.vehicle2[1].vehicle.model = "Accord"
  /\ result.comparison.vehicle1[1].color[1].name = "Blueprint"
  /\ result.comparison.vehicle2[1].color[1].name = "Lunar Silver Metallic"

(***************************************************************************)
(* The handlers.                                                           *)
(***************************************************************************)
\* the message asks for a comparison: it was composed as one, or it is a
\* fixed sentence with a comparison word in it
RequestsComparison(q) ==
  \/ q.kind = "compare"
  \/ q.kind = "literal" /\ \E k \in 1 .. Len(q.words) : q.words[k] \in {"compare", "vs", "versus"}

\* C13: POST /chat answers "show me affordable hybrid SUVs" with action
\* 'search', and answers with action 'compare' only when the message asks
\* for a comparison.
C13_ChatAction ==
  (called \in {"ChatTs", "ChatJs"} /\ result.status = 200) =>
    /\ query = [kind |-> "literal", words |-> <<"show", "me", "affordable", "hybrid", "SUVs">>] => result.action = Some("search")
    /\ result.action = Some("compare") => RequestsComparison(query)

\* the selected color of a compared vehicle is one of the vehicle's own
\* variants or a bare color without an image, and the image shown is one
\* of the vehicle's own
OwnOrBare(compared) ==
  /\ compared.selectedColor # None
  /\ \/ \E k \in 1 .. Len(compared.vehicle.colors) : compared.vehicle.colors[k] = compared.selectedColor[1]
     \/ compared.selectedColor[1].imageUrl = ""
  /\ \E k \in 1 .. Len(compared.vehicle.colors) : compared.vehicle.colors[k].imageUrl = compared.imageUrl

\* C20: in every successful compare result, the selected color of each
\* vehicle is a variant from that vehicle's own color list or a bare color
\* with no image; no variant or image of another vehicle is attached.
C20_ColorOfOwnVehicle ==
  (called = "Compare" /\ result.status = 200) =>
    /\ OwnOrBare(result.vehicle1)
    /\ OwnOrBare(result.vehicle2)

\* the id names a catalog vehicle
KnownId(id) == id # None /\ \E v \in 1 .. Len(vehiclesData) : vehiclesData[v].id = id[1]

\* the subjects the query of a compare request resolves: for index.enhanced.js
\* the vehicles parseComparison names, for the TypeScript server the
\* parts for which the search returned a vehicle
QueryResolves(request, n) ==
  /\ request.body.query # None
  /\ IF called = "Compare"
     THEN LET comparison == parseComparisonJs(request.body.query[1])
          IN  comparison # None /\ (IF n = 1 THEN comparison[1].vehicle1 ELSE comparison[1].vehicle2) # None
     ELSE SplitParts(request.body.query[1]) # None /\ (IF n = 1 THEN request.results1 ELSE request.results2) # None

BothResolved(request) ==
  /\ QueryResolves(request, 1) \/ KnownId(request.body.vehicle1)
  /\ QueryResolves(request, 2) \/ KnownId(request.body.vehicle2)

\* C21: the compare entry point answers with a comparison exactly when both
\* subjects are resolved (by the query, else by the vehicle id of the
\* request); otherwise it answers, without raising, with a failure that
\* carries at most 5 suggested catalog vehicles and no comparison payload.
C21_ComparisonIffBothResolved ==
  called \in {"Compare", "CompareTs"} =>
    /\ result.status \in {200, 400}
    /\ result.status = 200 <=> BothResolved(result.request)
    /\ result.status = 200 => {"vehicle1", "vehicle2", "differences"} \subseteq DOMAIN result /\ "suggestions" \notin DOMAIN result
    /\ result.status = 400 =>
         /\ DOMAIN result \cap {"vehicle1", "vehicle2", "differences", "financing"} = {}
         /\ Len(result.suggestions) <= 5
         /\ \A k \in 1 .. Len(result.suggestions) : KnownId(Some(result.suggestions[k].id))

\* a failure with 5 suggestions out of a larger catalog, for a query that
\* resolves one subject only and a request without ids
C21_FailureWithSuggestions ==
  /\ called = "Compare"
  /\ result.status = 400
  /\ Len(result.suggestions) = 5
  /\ Len(vehiclesData) > 5
  /\ QueryResolves(result.request, 2)
  /\ ~QueryResolves(result.request, 1)
  /\ result.request.body.vehicle1 = None

(***************************************************************************)
(* C22: every vehicle returned by the natural-language search entry point, *)
(* and every vehicle listed by the chat handler for a search query,        *)
(* satisfies every constraint present in the Filter Set extracted from     *)
(* that query (type, category, drivetrain, fuel type, make, model, price   *)
(* minimum and maximum, minimum MPG); a field absent from the Filter Set   *)
(* never excludes a vehicle.                                               *)
(***************************************************************************)
\* the catalog vehicles with the listed ids
Listed(ids) == { v \in 1 .. Len(vehiclesData) : \E k \in 1 .. Len(ids) : ids[k] = vehiclesData[v].id }

\* the price range of a Filter Set admits the price
InPriceRange(msrp, priceRange) ==
  /\ Truthy(priceRange.min) => msrp >= priceRange.min[1]
  /\ Truthy(priceRange.max) => msrp <= priceRange.max[1]

\* the vehicle meets every constraint present in the filters of
\* utils/nlu.js
SatisfiesFilters(v, filters) ==
  /\ filters.type # None => v.type = filters.type[1]
  /\ filters.category # None => v.category = filters.category[1]
  /\ filters.drivetrain # None => v.drivetrain = filters.drivetrain[1]
  /\ filters.fuelType # None => v.fuelType = filters.fuelType[1]
  /\ filters.make # None => v.make = filters.make[1]
  /\ filters.model # None => includes(toLowerCase(S(v.model)), toLowerCase(S(filters.model[1])))
  /\ InPriceRange(v.msrp, filters.priceRange)
  /\ Truthy(filters.mpg) => v.mpg >= filters.mpg[1]

\* the vehicle meets every constraint present in the entities of
\* services/nlu
SatisfiesEntities(v, entities) ==
  /\ entities.filters.type # None => v.type = entities.filters.type[1]
  /\ entities.filters.drivetrain # None => v.drivetrain = entities.filters.drivetrain[1]
  /\ entities.filters.fuelType # None => v.fuelType = entities.filters.fuelType[1]
  /\ entities.filters.make # None => v.make = entities.filters.make[1]
  /\ entities.priceRange # None => InPriceRange(v.msrp, entities.priceRange[1])
  /\ Truthy(entities.filters.mpg) => v.mpg >= entities.filters.mpg[1]

C22_SearchSatisfiesFilters ==
  (called = "Search" /\ result.filters # None) =>
      Listed(result.vehicles) = { v \in 1 .. Len(vehiclesData) : SatisfiesFilters(vehiclesData[v], result.filters[1]) }

C22_ChatJsSatisfiesFilters ==
  (called = "ChatJs" /\ result.vehicles # None) =>
      \A v \in Listed(result.vehicles[1]) : SatisfiesFilters(vehiclesData[v], extractFilters(text))

C22_ChatTsSatisfiesFilters ==
  (called = "ChatTs" /\ result.vehicles # None) =>
      \A v \in Listed(result.vehicles[1]) : SatisfiesEntities(vehiclesData[v], extractEntities(text, result.request.vehicles))

C22_ListedSatisfyFilters ==
  /\ C22_SearchSatisfiesFilters
  /\ C22_ChatJsSatisfiesFilters
  /\ C22_ChatTsSatisfiesFilters

(***************************************************************************)
(* C23: a POST /calculate-payment request whose parameters violate the     *)
(* Financing Parameters domain (a price of -1000, a missing or             *)
(* non-positive price) is answered with status 400 and never with a        *)
(* Payment Calculation, in every server variant that serves the endpoint.  *)
(***************************************************************************)
\* the price of the request sent is missing or not positive
BadPrice ==
  \/ query.fields = "noPrice"
  \/ RLe(params.price, RInt(0))

C23_BadPriceRejected ==
  (called \in {"PaymentTs", "PaymentJs"} /\ BadPrice) =>
      /\ result.status = 400
      /\ result.monthlyPayment = None

\* the TypeScript server alone
C23_BadPriceRejectedTs ==
  (called = "PaymentTs" /\ BadPrice) =>
      /\ result.status = 400
      /\ result.monthlyPayment = None

(***************************************************************************)
(* C24: the confidence parseQuery reports is 0.5, plus 0.3 if at least one *)
(* vehicle was matched, plus 0.1 if a color was found, plus 0.1 if a price *)
(* range was found, capped at 1.0; it always lies in [0.5, 1.0].           *)
(***************************************************************************)
\* tenths added for what was extracted
Tenths(entities) ==
  (IF Len(entities.vehicles) > 0 THEN 3 ELSE 0)
  + (IF Len(entities.colors) > 0 THEN 1 ELSE 0)
  + (IF entities.priceRange # None THEN 1 ELSE 0)

C24_Confidence ==
  called = "parseQueryTs" =>
      /\ result.nlu.confidence = Rat(5 + Tenths(result.nlu.entities), 10)
      /\ RLe(Rat(5, 10), result.nlu.confidence)
      /\ RLe(result.nlu.confidence, RInt(1))

\* a vehicle, a color and a price range together reach 1.0
C24_FullConfidence ==
  /\ called = "parseQueryTs"
  /\ Tenths(result.nlu.entities) = 5
  /\ result.nlu.confidence = RInt(1)

LargerTradeIns(p) ==
  { ti \in TradeIns \cup {RInt(5000), RInt(15000)} : RLt(p.tradeInValue, ti) }

C26_TradeInMonotone ==
  (called = "calculatePurchase" /\ ~IsError(result)) =>
      \A ti \in LargerTradeIns(params) :
         RLe(calculatePurchase([params EXCEPT !.tradeInValue = ti]).monthlyPayment, result.monthlyPayment)

\* a larger trade-in that lowers the payment of the request
C26_TradeInLowers ==
  /\ called = "calculatePurchase"
  /\ ~IsError(result)
  /\ \E ti \in LargerTradeIns(params) :
       RLt(calculatePurchase([params EXCEPT !.tradeInValue = ti]).monthlyPayment, result.monthlyPayment)

(***************************************************************************)
(* C27: the monthlyPayment reported by calculatePurchase, calculateLease   *)
(* and calculateSubscription is >= 0 on every valid input, including when  *)
(* trade-in plus down payment exceed the adjusted price.                   *)
(***************************************************************************)
C27_PaymentNotNegative ==
  (called \in Calculators /\ InDomain(params) /\ ~IsError(result)) =>
      RLe(RInt(0), result.monthlyPayment)

\* calculatePurchase and calculateLease alone
C27_PurchaseLeaseNotNegative ==
  (called \in {"calculatePurchase", "calculateLease"} /\ InDomain(params) /\ ~IsError(result)) =>
      RLe(RInt(0), result.monthlyPayment)

(***************************************************************************)
(* C28: whenever extractPriceRange returns both a minimum and a maximum,   *)
(* min <= max, for every query, including a query with several price       *)
(* keywords or with a keyword and a numeric bound.                         *)
(***************************************************************************)
C28_MinNotAboveMax ==
  (called \in PriceRangeCalls /\ Truthy(result.range.min) /\ Truthy(result.range.max)) =>
      result.range.min[1] <= result.range.max[1]

(***************************************************************************)
(* C29: the financing inlined in the plain-script servers'                 *)
(* /api/calculate-payment is equivalent to the financing engine: for the   *)
(* same parameters it gives the same monthlyPayment and totalCost, and it  *)
(* fails on the same inputs.                                               *)
(***************************************************************************)
\* what the engine gives for the parameters and the plan of the request
EngineResult ==
  IF query.plan = "subscription" THEN calculateSubscription(params)
  ELSE IF query.plan = "lease" THEN calculateLease(params)
  ELSE calculatePurchase(params)

\* the response agrees with the engine: an error for an error, else the
\* same two amounts
AgreesWithEngine(response, engine) ==
  IF IsError(engine) THEN response.status # 200
  ELSE /\ response.status = 200
       /\ response.monthlyPayment = Some(engine.monthlyPayment)
       /\ response.totalCost = Some(engine.totalCost)

C29_InlineEqualsEngine ==
  (called = "PaymentJs" /\ query.fields = "all") => AgreesWithEngine(result, EngineResult)

\* the purchase branch on parameters the engine finances (a net price
\* above 0) with a tax rate that is not 0
C29_InlinePurchaseEqualsEngine ==
  (called = "PaymentJs" /\ query.fields = "all" /\ query.plan = "purchase"
     /\ ~IsError(EngineResult) /\ ~PurchaseCovered(params) /\ ~RIsZero(params.taxRate)) =>
      AgreesWithEngine(result, EngineResult)

\* the same for the TypeScript server, which calls the engine, on
\* parameters its validation lets through
C29_TsEqualsEngine ==
  (called = "PaymentTs" /\ query.fields = "all" /\ result.status = 200) =>
      AgreesWithEngine(result, EngineResult)

(***************************************************************************)
(* C30: with several clients connected, a GET /api/vehicles by one client  *)
(* never changes the vehicle list held by another client, under every      *)
(* interleaving of requests and vehicles_update broadcasts: the list of a  *)
(* client changes only through a message its own request produced.        *)
(***************************************************************************)
C30_OwnRequestsOnly ==
  [][\A c \in Clients : held'[c] # held[c] => result'.origin = c]_vars

\* the response to a client's own request does reach its list
C30_OwnResponseApplied ==
  [][\A c \in Clients : (called' = "fetchVehicles" /\ result'.origin = c) => held'[c] = result'.data.vehicles]_vars

====
